---------------------------- MODULE Spec2Model ----------------------------
(***************************************************************************)
(* A model of random_pokemon.py: the generation table and candidate ids,   *)
(* the two-tier cache (memory dictionaries and the JSON files), the         *)
(* evolution-chain resolver and the team sampler of show_pokemon /          *)
(* generate_pokemon_team.                                                   *)
(*                                                                          *)
(* Conventions.                                                             *)
(*  - A Python dict is a TLA+ function; its keys are tagged with the        *)
(*    Python type of the key, IntKey(n) or StrKey(the decimal digits that   *)
(*    spell n), because 1 and "1" are different dict keys.                  *)
(*  - None is the record None below.                                        *)
(*  - A remote request either returns the document the catalogue holds or   *)
(*    raises; which of the two is chosen by the environment at each call.   *)
(***************************************************************************)
EXTENDS Integers, Sequences, FiniteSets, TLC

VARIABLES
    \* ---- the module-level caches (lines 24-26) and the two cache files
    pokemon_cache, species_cache, evolution_cache,
    data_file, species_file,
    \* ---- the widgets read by show_pokemon
    selected_generations, type_filter_var, evolution_filter_var,
    legendary_filter_var, pokemon_selectors,
    \* ---- locals of generate_pokemon_team and its position
    phase, slot, selected_pokemon, selected_types,
    \* ---- what the cycle did: warnings shown, thread started, requests
    \*      issued, requests that raised, save_cache() calls, candidates
    \*      left untried by the last get_random_pokemon call
    warnings, thread_started, remote_used, failures, flushes, exhausted,
    \* ---- what is left of the shuffled valid_ids in get_random_pokemon
    untried,
    \* ---- results of the candidate-id computation (lines 272-275, 424-427)
    valid_ids, pokemon_ids,
    \* ---- the resolver's environment and the log of its calls
    evolution_data, calls, last_call,
    \* ---- the memory tier as it was before the last save_cache()
    saved_memory,
    \* ---- the ThreadPoolExecutor of the prefetch call in progress, and a
    \*      fetch another thread has in progress
    executor, foreground

vars == <<pokemon_cache, species_cache, evolution_cache, data_file,
          species_file, selected_generations, type_filter_var,
          evolution_filter_var, legendary_filter_var, pokemon_selectors,
          phase, slot, selected_pokemon, selected_types, warnings,
          thread_started, remote_used, failures, flushes, exhausted,
          untried, valid_ids, pokemon_ids, evolution_data, calls, last_call,
          saved_memory, executor, foreground>>

poolVars == <<executor, foreground>>

-----------------------------------------------------------------------------
(* Bounds of the model.                                                    *)

\* The remote catalogue serves the first NumKnown entries of Catalogue.
NumKnown == 3
\* Generations the user may tick in the sampler's specification: 1..MaxGen.
MaxGen == 2
\* How many of the six selectors hold a name.
MaxManual == 2
\* How many remote requests and file operations may raise in one behaviour.
MaxFailures == 1

-----------------------------------------------------------------------------
(* Python values.                                                          *)

None == [id |-> 0, types |-> {}]

\* str(n) for n >= 0: the decimal digits, most significant first
RECURSIVE Str(_)
Str(n) == IF n < 10 THEN <<n>> ELSE Str(n \div 10) \o <<n % 10>>

\* int(s) for a string of decimal digits
RECURSIVE int(_)
int(s) ==
    IF Len(s) = 0 THEN 0
    ELSE 10 * int(SubSeq(s, 1, Len(s) - 1)) + s[Len(s)]

\* A dict key: the int n, or the str whose digits are given.
IntKey(n) == [type |-> "int", int |-> n, str |-> <<>>]
StrKey(digits) == [type |-> "str", int |-> 0, str |-> digits]

EmptyDict == [k \in {} |-> None]

\* d = {key: value}: the name is bound to a new dict that holds the item
\* alone.
DictRebound(d, key, value) == [k \in {key} |-> value]

\* d[key] = value
DictSet(d, key, value) ==
    [k \in (DOMAIN d) \cup {key} |-> IF k = key THEN value ELSE d[k]]

\* range(a, b) as a list
Range(a, b) == [i \in 1..(IF b > a THEN b - a ELSE 0) |-> a + i - 1]

Elements(s) == {s[i] : i \in DOMAIN s}

-----------------------------------------------------------------------------
(* The generation table and the candidate ids.                             *)

\* GenerationSelector creates one checkbox per generation: range(9), line 141
NumGenerations == 9

\* get_random_pokemon's table (lines 259-269)
gen_ranges ==
    [g \in 1..NumGenerations |->
        CASE g = 1 -> <<1, 151>>
          [] g = 2 -> <<152, 251>>
          [] g = 3 -> <<252, 386>>
          [] g = 4 -> <<387, 493>>
          [] g = 5 -> <<494, 649>>
          [] g = 6 -> <<650, 721>>
          [] g = 7 -> <<722, 809>>
          [] g = 8 -> <<810, 905>>
          [] g = 9 -> <<906, 1025>>]

\* generate_pokemon_team's own copy of the table (lines 412-422)
team_gen_ranges ==
    [g \in 1..NumGenerations |->
        CASE g = 1 -> <<1, 151>>
          [] g = 2 -> <<152, 251>>
          [] g = 3 -> <<252, 386>>
          [] g = 4 -> <<387, 493>>
          [] g = 5 -> <<494, 649>>
          [] g = 6 -> <<650, 721>>
          [] g = 7 -> <<722, 809>>
          [] g = 8 -> <<810, 905>>
          [] g = 9 -> <<906, 1025>>]

\* GenerationSelector.get_selected_generations: the ticked generations in
\* ascending order, [i+1 for i, var in enumerate(self.vars) if var.get()]
RECURSIVE get_selected_generations(_, _)
get_selected_generations(ticked, i) ==
    IF i >= NumGenerations THEN <<>>
    ELSE (IF ticked[i + 1] THEN <<i + 1>> ELSE <<>>)
         \o get_selected_generations(ticked, i + 1)

\* A slip the table walk could have: range(start, end), dropping the last id.
ExtendRangeExclusive(ids, table, gen) ==
    ids \o Range(table[gen][1], table[gen][2])

\* start, end = gen_ranges[gen]; ids.extend(range(start, end + 1))
ExtendRange(ids, table, gen) ==
    ids \o Range(table[gen][1], table[gen][2] + 1)

\* for gen in selected_generations: ... (lines 272-275 and 424-427)
RECURSIVE CollectIds(_, _, _, _)
CollectIds(gens, table, k, ids) ==
    IF k > Len(gens) THEN ids
    ELSE CollectIds(gens, table, k + 1, ExtendRange(ids, table, gens[k]))

\* valid_ids of get_random_pokemon
ValidIds(gens) == CollectIds(gens, gen_ranges, 1, <<>>)

\* pokemon_ids of generate_pokemon_team, handed to the two prefetch calls
PokemonIds(gens) == CollectIds(gens, team_gen_ranges, 1, <<>>)

-----------------------------------------------------------------------------
(* The remote catalogue (pokeapi.co): the documents a request returns when *)
(* it does not raise.                                                      *)

\* .../pokemon-species/<id>/ after url.split('/')
SpeciesUrl(id) ==
    <<"https:", "", "pokeapi.co", "api", "v2", "pokemon-species", Str(id), "">>

\* One node of an evolution-chain document.
Node(id, children) == [species |-> [url |-> SpeciesUrl(id)], evolves_to |-> children]

\* Chain documents of the catalogue, by the number in their url.
CatalogueChains ==
    [u \in {1, 18, 77, 79} |->
        CASE u = 1  -> Node(1, <<Node(2, <<Node(3, <<>>)>>)>>)
          [] u = 18 -> Node(43, <<Node(44, <<Node(45, <<>>), Node(182, <<>>)>>)>>)
          [] u = 77 -> Node(150, <<>>)
          [] u = 79 -> Node(152, <<Node(153, <<Node(154, <<>>)>>)>>)]

\* The entities of the catalogue the model knows, in the order NumKnown
\* admits them: id, capitalised name, type names in display order, the two
\* notability flags and the chain document the species record refers to.
Catalogue ==
    << [id |-> 150, name |-> "Mewtwo",    types |-> <<"psychic">>,
        is_legendary |-> TRUE,  is_mythical |-> FALSE, evolution_chain |-> 77],
       [id |-> 152, name |-> "Chikorita", types |-> <<"grass">>,
        is_legendary |-> FALSE, is_mythical |-> FALSE, evolution_chain |-> 79],
       [id |-> 3,   name |-> "Venusaur",  types |-> <<"grass", "poison">>,
        is_legendary |-> FALSE, is_mythical |-> FALSE, evolution_chain |-> 1],
       [id |-> 45,  name |-> "Vileplume", types |-> <<"grass", "poison">>,
        is_legendary |-> FALSE, is_mythical |-> FALSE, evolution_chain |-> 18],
       [id |-> 151, name |-> "Mew",       types |-> <<"psychic">>,
        is_legendary |-> FALSE, is_mythical |-> TRUE,  evolution_chain |-> 77] >>

Known == {Catalogue[i] : i \in 1..NumKnown}
KnownIds == {e.id : e \in Known}
Entry(id) == CHOOSE e \in Known : e.id = id

NoneSpecies == [id |-> 0, is_legendary |-> FALSE, is_mythical |-> FALSE,
                evolution_chain |-> 0]

\* The remote the sampler talks to: primary records, species records and
\* chain documents of the known entities.
CatalogueRemote ==
    [pokemon |-> [i \in KnownIds |-> [id |-> i, types |-> Entry(i).types]],
     species |-> [i \in KnownIds |->
                    [id |-> i, is_legendary |-> Entry(i).is_legendary,
                     is_mythical |-> Entry(i).is_mythical,
                     evolution_chain |-> Entry(i).evolution_chain]],
     chains  |-> CatalogueChains]

-----------------------------------------------------------------------------
(* The fetch functions. Each takes the dictionaries it reads, and whether  *)
(* the request it may issue returns (ok); it gives back its return value,  *)
(* the dictionaries as it leaves them, the number of requests issued and   *)
(* the number of requests for an existing document that raised.            *)

\* get_pokemon_data (lines 165-179)
get_pokemon_data(remote, cache, pokemon_id, ok) ==
    IF IntKey(pokemon_id) \in DOMAIN cache
    THEN [data |-> cache[IntKey(pokemon_id)], cache |-> cache,
          requests |-> 0, failed |-> 0]
    ELSE IF ok /\ pokemon_id \in DOMAIN remote.pokemon
    THEN [data |-> remote.pokemon[pokemon_id],
          cache |-> DictSet(cache, IntKey(pokemon_id), remote.pokemon[pokemon_id]),
          requests |-> 1, failed |-> 0]
    ELSE [data |-> None, cache |-> cache, requests |-> 1,
          failed |-> IF pokemon_id \in DOMAIN remote.pokemon THEN 1 ELSE 0]

\* get_pokemon_species_data (lines 181-195)
get_pokemon_species_data(remote, cache, pokemon_id, ok) ==
    IF IntKey(pokemon_id) \in DOMAIN cache
    THEN [data |-> cache[IntKey(pokemon_id)], cache |-> cache,
          requests |-> 0, failed |-> 0]
    ELSE IF ok /\ pokemon_id \in DOMAIN remote.species
    THEN [data |-> remote.species[pokemon_id],
          cache |-> DictSet(cache, IntKey(pokemon_id), remote.species[pokemon_id]),
          requests |-> 1, failed |-> 0]
    ELSE [data |-> NoneSpecies, cache |-> cache, requests |-> 1,
          failed |-> IF pokemon_id \in DOMAIN remote.species THEN 1 ELSE 0]

\* The traversal with the append moved after the loop (post-order).
RECURSIVE extract_chain_postorder(_)
extract_chain_postorder(chain_data) ==
    LET RECURSIVE Children(_)
        Children(k) ==
            IF k > Len(chain_data.evolves_to) THEN <<>>
            ELSE extract_chain_postorder(chain_data.evolves_to[k]) \o Children(k + 1)
    IN  Children(1) \o <<int(chain_data.species.url[Len(chain_data.species.url) - 1])>>

\* extract_chain (lines 213-219): the ids appended to evolution_chain by
\* the call on chain_data. species_url.split('/')[-2] is the segment before
\* the last one.
RECURSIVE extract_chain(_)
extract_chain(chain_data) ==
    LET species_url == chain_data.species.url
        pokemon_id == int(species_url[Len(species_url) - 1])
        RECURSIVE Children(_)
        Children(k) ==
            IF k > Len(chain_data.evolves_to) THEN <<>>
            ELSE extract_chain(chain_data.evolves_to[k]) \o Children(k + 1)
    IN  <<pokemon_id>> \o Children(1)

\* The store of line 222 keyed by the first id of the list, the root of
\* the chain document.
StoreChainAtRoot(cache, pokemon_id, evolution_chain) ==
    DictSet(cache, IntKey(evolution_chain[1]), evolution_chain)

\* The store of line 222 done before the traversal has filled the list.
StoreChainEarly(cache, pokemon_id, evolution_chain) ==
    DictSet(cache, IntKey(pokemon_id), <<>>)

\* evolution_cache[pokemon_id] = evolution_chain (line 222): pokemon_id is
\* the parameter of get_evolution_chain; extract_chain's pokemon_id is a
\* local of the nested function.
StoreChain(cache, pokemon_id, evolution_chain) ==
    DictSet(cache, IntKey(pokemon_id), evolution_chain)

\* Lines 203-226 of get_evolution_chain once get_pokemon_species_data has
\* answered sp.
ChainOfSpecies(remote, evolution, pokemon_id, okC, sp) ==
    IF sp.data = NoneSpecies
    THEN [chain |-> <<>>, species_cache |-> sp.cache,
          evolution_cache |-> evolution,
          requests |-> sp.requests, failed |-> sp.failed]
    ELSE IF okC /\ sp.data.evolution_chain \in DOMAIN remote.chains
    THEN LET evolution_chain == extract_chain(remote.chains[sp.data.evolution_chain])
         IN [chain |-> evolution_chain, species_cache |-> sp.cache,
             evolution_cache |-> StoreChain(evolution, pokemon_id, evolution_chain),
             requests |-> sp.requests + 1, failed |-> sp.failed]
    ELSE [chain |-> <<>>, species_cache |-> sp.cache,
          evolution_cache |-> evolution, requests |-> sp.requests + 1,
          failed |-> sp.failed +
              (IF sp.data.evolution_chain \in DOMAIN remote.chains THEN 1 ELSE 0)]

\* get_evolution_chain (lines 197-226). okS: the species request returns;
\* okC: the chain-document request returns.
get_evolution_chain(remote, species, evolution, pokemon_id, okS, okC) ==
    IF IntKey(pokemon_id) \in DOMAIN evolution
    THEN [chain |-> evolution[IntKey(pokemon_id)], species_cache |-> species,
          evolution_cache |-> evolution, requests |-> 0, failed |-> 0]
    ELSE ChainOfSpecies(remote, evolution, pokemon_id, okC,
             get_pokemon_species_data(remote, species, pokemon_id, okS))

\* The comparison made with the first element of the chain.
FullyEvolvedFirst(pokemon_id, evolution_chain) ==
    IF evolution_chain = <<>> THEN TRUE
    ELSE pokemon_id = evolution_chain[1]

\* is_fully_evolved, lines 231-233: the answer for a resolved chain
FullyEvolved(pokemon_id, evolution_chain) ==
    IF evolution_chain = <<>> THEN TRUE
    ELSE pokemon_id = evolution_chain[Len(evolution_chain)]

\* Lines 231-233 of is_fully_evolved for the answer r of get_evolution_chain
StageOfChain(pokemon_id, r) ==
    [value |-> FullyEvolved(pokemon_id, r.chain), chain |-> r.chain,
     species_cache |-> r.species_cache,
     evolution_cache |-> r.evolution_cache,
     requests |-> r.requests, failed |-> r.failed]

\* is_fully_evolved (lines 228-233)
is_fully_evolved(remote, species, evolution, pokemon_id, okS, okC) ==
    StageOfChain(pokemon_id,
        get_evolution_chain(remote, species, evolution, pokemon_id, okS, okC))

\* Lines 238-240 with line 239 returning True: an entity whose species
\* record is missing counts as notable.
NotableOfSpeciesStrict(sp) ==
    [value |-> IF sp.data = NoneSpecies THEN TRUE
               ELSE sp.data.is_legendary \/ sp.data.is_mythical,
     species_cache |-> sp.cache, requests |-> sp.requests, failed |-> sp.failed]

\* Lines 238-240 of is_legendary for the answer sp of
\* get_pokemon_species_data
NotableOfSpecies(sp) ==
    [value |-> IF sp.data = NoneSpecies THEN FALSE
               ELSE sp.data.is_legendary \/ sp.data.is_mythical,
     species_cache |-> sp.cache, requests |-> sp.requests, failed |-> sp.failed]

\* A notability check that never finds an entity notable.
is_legendary_never(remote, species, pokemon_id, ok) ==
    [value |-> FALSE, species_cache |-> species, requests |-> 0, failed |-> 0]

\* is_legendary (lines 235-240)
is_legendary(remote, species, pokemon_id, ok) ==
    NotableOfSpecies(get_pokemon_species_data(remote, species, pokemon_id, ok))

-----------------------------------------------------------------------------
(* Values variables hold while the specification at hand does not use them. *)

AbsentFile == [state |-> "absent", content |-> EmptyDict]

CachesCold ==
    /\ pokemon_cache = EmptyDict
    /\ species_cache = EmptyDict
    /\ evolution_cache = EmptyDict

DiskAbsent ==
    /\ data_file = AbsentFile
    /\ species_file = AbsentFile
    /\ saved_memory = <<EmptyDict, EmptyDict>>

FiltersOff ==
    /\ type_filter_var = FALSE
    /\ evolution_filter_var = FALSE
    /\ legendary_filter_var = FALSE
    /\ pokemon_selectors = <<>>

TeamIdle ==
    /\ slot = 1
    /\ selected_pokemon = <<>>
    /\ selected_types = {}
    /\ warnings = {}
    /\ thread_started = FALSE
    /\ remote_used = FALSE
    /\ failures = 0
    /\ flushes = 0
    /\ exhausted = FALSE
    /\ untried = {}

CandidatesIdle ==
    /\ valid_ids = <<>>
    /\ pokemon_ids = <<>>

\* No prefetch call is in progress: no pool, no task.
NoExecutor == [kind |-> "none", ids |-> <<>>, next |-> 1, running |-> {},
               raised |-> {}, returned |-> FALSE]

\* No other thread has a fetch in progress.
NoFetch == [op |-> "none", id |-> 0]

ExecutorIdle ==
    /\ executor = NoExecutor
    /\ foreground = NoFetch

ResolverIdle ==
    /\ evolution_data = Node(0, <<>>)
    /\ calls = <<>>
    /\ last_call = [op |-> "none", id |-> 0, chain |-> <<>>, value |-> FALSE,
                    source |-> "none"]

-----------------------------------------------------------------------------
(* SpecCandidates: the candidate ids of every selection of generations.    *)

InitCandidates ==
    /\ \E ticked \in [1..NumGenerations -> BOOLEAN] :
           selected_generations = get_selected_generations(ticked, 0)
    /\ phase = "selected"
    /\ CachesCold /\ DiskAbsent /\ FiltersOff /\ TeamIdle
    /\ CandidatesIdle /\ ExecutorIdle /\ ResolverIdle

\* The two walks over the generation tables: pokemon_ids in
\* generate_pokemon_team (lines 424-427), handed to the prefetch calls, and
\* valid_ids in get_random_pokemon (lines 272-275), shuffled and drawn from.
ComputeCandidates ==
    /\ phase = "selected"
    /\ pokemon_ids' = PokemonIds(selected_generations)
    /\ valid_ids' = ValidIds(selected_generations)
    /\ phase' = "candidates"
    /\ UNCHANGED <<pokemon_cache, species_cache, evolution_cache, data_file,
                   species_file, selected_generations, type_filter_var,
                   evolution_filter_var, legendary_filter_var,
                   pokemon_selectors, slot, selected_pokemon, selected_types,
                   warnings, thread_started, remote_used, failures, flushes,
                   exhausted, untried, evolution_data, calls, last_call,
                   saved_memory, executor, foreground>>

NextCandidates == ComputeCandidates

SpecCandidates == InitCandidates /\ [][NextCandidates]_vars

\* The ids of the inclusive interval lo..hi
Interval(lo, hi) == {i \in 1..1025 : lo <= i /\ i <= hi}

\* C5: for every subset of the generations 1..9 the candidate ids are exactly
\* the union of the inclusive id intervals of the selected generations
\* ({1} gives 1..151, {1,3} gives 1..151 and 252..386), and the ids handed
\* to the prefetcher are the ids the sampler draws from.
C5_CandidateSetIsUnionOfIntervals ==
    phase = "candidates" =>
        /\ Elements(valid_ids) =
              UNION {Interval(gen_ranges[g][1], gen_ranges[g][2]) :
                        g \in Elements(selected_generations)}
        /\ (selected_generations = <<1>> => Elements(valid_ids) = 1..151)
        /\ (selected_generations = <<1, 3>> =>
                Elements(valid_ids) = (1..151) \cup (252..386))
        /\ (selected_generations = <<1, 2, 3, 4, 5, 6, 7, 8, 9>> =>
                Elements(valid_ids) = 1..1025)
        /\ Elements(pokemon_ids) = Elements(valid_ids)

C5_Witness ==
    /\ phase = "candidates"
    /\ selected_generations = <<1, 3>>
    /\ Len(valid_ids) = 286
    /\ Len(pokemon_ids) = 286

-----------------------------------------------------------------------------
(* The cache files.                                                        *)

\* The key json.dump writes for a dict key: an int key n becomes str(n).
JsonKey(k) == IF k.type = "int" THEN StrKey(Str(k.int)) ELSE k

\* json.dump followed by json.load of the text: the mapping the file holds.
\* Two keys of the dict that are written as the same string (1 and "1")
\* leave one entry; the int key is the later insertion, its value is kept.
JsonDump(dict) ==
    [s \in {JsonKey(k) : k \in DOMAIN dict} |->
        IF \E k \in DOMAIN dict : k.type = "int" /\ JsonKey(k) = s
        THEN dict[CHOOSE k \in DOMAIN dict : k.type = "int" /\ JsonKey(k) = s]
        ELSE dict[s]]

JsonFile(dict) == [state |-> "json", content |-> JsonDump(dict)]
CorruptFile == [state |-> "corrupt", content |-> EmptyDict]

\* How far save_cache gets before an I/O error, if any.
SaveOutcomes == {"saved", "open_data_fails", "dump_data_fails",
                 "open_species_fails", "dump_species_fails"}

\* save_cache (lines 57-65): the two files after the call. open(..., 'w')
\* truncates; an error during a dump leaves a cut-off text.
save_cache(pokemon, species, data, spfile, outcome) ==
    CASE outcome = "saved" ->
            [data_file |-> JsonFile(pokemon), species_file |-> JsonFile(species)]
      [] outcome = "open_data_fails" ->
            [data_file |-> data, species_file |-> spfile]
      [] outcome = "dump_data_fails" ->
            [data_file |-> CorruptFile, species_file |-> spfile]
      [] outcome = "open_species_fails" ->
            [data_file |-> JsonFile(pokemon), species_file |-> spfile]
      [] outcome = "dump_species_fails" ->
            [data_file |-> JsonFile(pokemon), species_file |-> CorruptFile]

-----------------------------------------------------------------------------
(* The prefetcher and the name index.                                      *)

\* prefetch_pokemon_data / prefetch_species_data (lines 94-120): the
\* dictionary once every task has run. Each task writes only the key of its
\* own id, and only if the id was missing and its request returned; raising
\* holds the ids whose request raises, documents the documents served.
prefetch_data(documents, cache, ids, raising) ==
    LET fetched == {i \in Elements(ids) :
                       /\ IntKey(i) \notin DOMAIN cache
                       /\ i \in DOMAIN documents
                       /\ i \notin raising}
    IN  [k \in (DOMAIN cache) \cup {IntKey(i) : i \in fetched} |->
            IF k \in DOMAIN cache THEN cache[k] ELSE documents[k.int]]

\* The ids of a prefetch call whose request may return or raise.
Requested(documents, cache, ids) ==
    {i \in Elements(ids) : IntKey(i) \notin DOMAIN cache /\ i \in DOMAIN documents}

\* The answer of the name-index endpoint: one capitalised name per id of
\* 1..1025 in ascending id order (limit=1025, line 245).
AllPokemon ==
    [i \in 1..1025 |-> IF i \in KnownIds THEN Entry(i).name ELSE "Unnamed"]
        \o <<>>

\* get_all_pokemon (lines 242-251)
get_all_pokemon(ok) == IF ok THEN AllPokemon ELSE <<>>

\* list.index(x): the first 0-based position of x, or -1 for ValueError
Index(list, x) ==
    LET at == {i \in DOMAIN list : list[i] = x} IN
    IF at = {} THEN -1
    ELSE (CHOOSE i \in at : \A j \in at : i <= j) - 1

\* The name of the first type only.
TypeNamesFirst(pokemon_data) == {pokemon_data.types[1]}

\* {t['type']['name'] for t in pokemon_data['types']}
TypeNames(pokemon_data) == Elements(pokemon_data.types)

\* The names a selector can hold: a name of the index, or typed text that
\* is no name of it.
SelectorNames == {e.name : e \in Known} \cup {"Missingno"}

\* pokemon_selectors holds six selectors (range(6), line 721)
NumSelectors == 6

\* The roster is filled while len(selected_pokemon) < 6 (line 458)
TeamSize == 6

-----------------------------------------------------------------------------
(* get_random_pokemon: one pass of its loop body.                          *)

\* The existing_types argument: None, or the set of used type names.
TypesArg(active, types) == [none |-> ~active, types |-> IF active THEN types ELSE {}]

Verdict(accepted, data, p, s, e, requests, failed) ==
    [accepted |-> accepted, data |-> data, pokemon_cache |-> p,
     species_cache |-> s, evolution_cache |-> e,
     requests |-> requests, failed |-> failed]

\* Lines 297-303 without the test of line 300: the record is returned
\* whatever its types.
CheckTypeFilterSkipped(existing_types, pd, ev, lg) ==
    IF lg.value
    THEN Verdict(FALSE, None, pd.cache, lg.species_cache, ev.evolution_cache,
                 pd.requests + ev.requests + lg.requests,
                 pd.failed + ev.failed + lg.failed)
    ELSE Verdict(TRUE, pd.data, pd.cache, lg.species_cache, ev.evolution_cache,
                 pd.requests + ev.requests + lg.requests,
                 pd.failed + ev.failed + lg.failed)

\* Lines 297-303: the type check and the return, for the record pd, the
\* stage answer ev and the notability answer lg.
CheckTypeFilter(existing_types, pd, ev, lg) ==
    IF lg.value
    THEN Verdict(FALSE, None, pd.cache, lg.species_cache, ev.evolution_cache,
                 pd.requests + ev.requests + lg.requests,
                 pd.failed + ev.failed + lg.failed)
    ELSE IF /\ ~existing_types.none
            /\ TypeNames(pd.data) \cap existing_types.types # {}
    THEN Verdict(FALSE, None, pd.cache, lg.species_cache, ev.evolution_cache,
                 pd.requests + ev.requests + lg.requests,
                 pd.failed + ev.failed + lg.failed)
    ELSE Verdict(TRUE, pd.data, pd.cache, lg.species_cache, ev.evolution_cache,
                 pd.requests + ev.requests + lg.requests,
                 pd.failed + ev.failed + lg.failed)

\* Lines 293-295: the legendary check, made if the stage check let the
\* candidate through.
CheckLegendaryFilter(remote, pokemon_id, existing_types, exclude_legendary, okL, pd, ev) ==
    IF ~ev.value
    THEN Verdict(FALSE, None, pd.cache, ev.species_cache, ev.evolution_cache,
                 pd.requests + ev.requests, pd.failed + ev.failed)
    ELSE CheckTypeFilter(existing_types, pd, ev,
             IF exclude_legendary
             THEN is_legendary(remote, ev.species_cache, pokemon_id, okL)
             ELSE [value |-> FALSE, species_cache |-> ev.species_cache,
                   requests |-> 0, failed |-> 0])

\* Lines 289-291: the stage check, made if get_pokemon_data gave a record.
CheckEvolutionFilter(remote, s, e, pokemon_id, existing_types, evolution_filter, exclude_legendary, okS, okC, okL, pd) ==
    IF pd.data = None
    THEN Verdict(FALSE, None, pd.cache, s, e, pd.requests, pd.failed)
    ELSE CheckLegendaryFilter(remote, pokemon_id, existing_types,
             exclude_legendary, okL, pd,
             IF evolution_filter
             THEN is_fully_evolved(remote, s, e, pokemon_id, okS, okC)
             ELSE [value |-> TRUE, chain |-> <<>>, species_cache |-> s,
                   evolution_cache |-> e, requests |-> 0, failed |-> 0])

\* Lines 285-303 for one pokemon_id of the shuffled list: the record if the
\* candidate is returned, and the caches as the checks leave them.
\* okP, okS, okC, okL: whether the primary request, the species and chain
\* requests of is_fully_evolved and the species request of is_legendary
\* return, should they be issued.
TryCandidateBody(remote, p, s, e, pokemon_id, existing_types, evolution_filter, exclude_legendary, okP, okS, okC, okL) ==
    CheckEvolutionFilter(remote, s, e, pokemon_id, existing_types,
        evolution_filter, exclude_legendary, okS, okC, okL,
        get_pokemon_data(remote, p, pokemon_id, okP))

\* Candidates drawn from every id the catalogue holds, whatever the
\* generations.
ServedCandidatesAll(gens) == KnownIds

\* The ids of valid_ids whose primary record the catalogue holds. The other
\* ids of the shuffled list raise in get_pokemon_data and are passed over by
\* lines 286-287 with no effect on any dictionary.
ServedCandidates(gens) == Elements(ValidIds(gens)) \cap KnownIds

-----------------------------------------------------------------------------
(* SpecTeam: one generation cycle, from the button to the finalize         *)
(* callback, for every selection, filter setting and manual picks.         *)

candidateVars == <<valid_ids, pokemon_ids>>
resolverVars == <<evolution_data, calls, last_call>>
widgetVars == <<selected_generations, type_filter_var, evolution_filter_var,
                legendary_filter_var, pokemon_selectors>>
diskVars == <<data_file, species_file, saved_memory>>

RECURSIVE AscendingSeq(_)
AscendingSeq(S) ==
    IF S = {} THEN <<>>
    ELSE LET m == CHOOSE x \in S : \A y \in S : x <= y
         IN  <<m>> \o AscendingSeq(S \ {m})

\* Sequences over S of length at most n
SeqsUpTo(S, n) == UNION {[1..k -> S] : k \in 0..n}

Min(a, b) == IF a < b THEN a ELSE b

\* main() has run: no cache file existed, the window shows the widgets as
\* the user left them. pokemon_selectors lists the names of the selectors
\* that hold one, in selector order; an empty selector is passed over by
\* line 439.
InitTeam ==
    /\ \E gens \in SUBSET (1..MaxGen) : selected_generations = AscendingSeq(gens)
    /\ type_filter_var \in BOOLEAN
    /\ evolution_filter_var \in BOOLEAN
    /\ legendary_filter_var \in BOOLEAN
    /\ pokemon_selectors \in SeqsUpTo(SelectorNames, Min(MaxManual, NumSelectors))
    /\ phase = "idle"
    /\ CachesCold /\ DiskAbsent /\ TeamIdle /\ CandidatesIdle /\ ExecutorIdle /\ ResolverIdle

\* The while test of line 458 written with <= instead of <.
PositionOffByOne(nextSlot, roster) ==
    IF nextSlot <= Len(pokemon_selectors) THEN "manual"
    ELSE IF Len(roster) <= TeamSize THEN "fill"
    ELSE "finalize"

\* Where generate_pokemon_team stands once the selector at index slot-1 is
\* done and the roster is roster: the next selector, the while loop, or the
\* hand-off of update_ui.
Position(nextSlot, roster) ==
    IF nextSlot <= Len(pokemon_selectors) THEN "manual"
    ELSE IF Len(roster) < TeamSize THEN "fill"
    ELSE "finalize"

\* show_pokemon with the check of lines 404-407 left out.
show_pokemon_unguarded ==
    /\ phase = "idle"
    /\ thread_started' = TRUE
    /\ phase' = "prefetch_pokemon"
    /\ UNCHANGED <<warnings, pokemon_cache, species_cache, evolution_cache,
                   slot, selected_pokemon, selected_types, remote_used,
                   failures, flushes, exhausted, untried>>
    /\ UNCHANGED poolVars
    /\ UNCHANGED <<widgetVars, diskVars, candidateVars, resolverVars>>

\* show_pokemon (lines 389-407, 585-588): the button's handler on the
\* control thread. Without a generation it warns and returns; otherwise it
\* starts the background thread.
show_pokemon ==
    /\ phase = "idle"
    /\ IF selected_generations = <<>>
       THEN /\ warnings' = warnings \cup {"NoGenerationSelected"}
            /\ phase' = "aborted"
            /\ UNCHANGED thread_started
       ELSE /\ thread_started' = TRUE
            /\ phase' = "prefetch_pokemon"
            /\ UNCHANGED warnings
    /\ UNCHANGED <<pokemon_cache, species_cache, evolution_cache,
                   slot, selected_pokemon, selected_types, remote_used,
                   failures, flushes, exhausted, untried>>
    /\ UNCHANGED poolVars
    /\ UNCHANGED <<widgetVars, diskVars, candidateVars, resolverVars>>

\* prefetch_pokemon_data(pokemon_ids) (line 430): returns when the pool has
\* run every task.
PrefetchPokemon ==
    /\ phase = "prefetch_pokemon"
    /\ LET ids == PokemonIds(selected_generations)
           asked == Requested(CatalogueRemote.pokemon, pokemon_cache, ids)
       IN  \E raising \in SUBSET asked :
             /\ failures + Cardinality(raising) <= MaxFailures
             /\ pokemon_cache' =
                   prefetch_data(CatalogueRemote.pokemon, pokemon_cache, ids, raising)
             /\ failures' = failures + Cardinality(raising)
             /\ remote_used' =
                   (remote_used \/
                      \E i \in Elements(ids) : IntKey(i) \notin DOMAIN pokemon_cache)
    /\ phase' = "prefetch_species"
    /\ UNCHANGED <<species_cache, evolution_cache, slot, selected_pokemon,
                   selected_types, warnings, thread_started, flushes,
                   exhausted, untried>>
    /\ UNCHANGED poolVars
    /\ UNCHANGED <<widgetVars, diskVars, candidateVars, resolverVars>>

\* prefetch_species_data(pokemon_ids) (line 431), then lines 434-435
PrefetchSpecies ==
    /\ phase = "prefetch_species"
    /\ LET ids == PokemonIds(selected_generations)
           asked == Requested(CatalogueRemote.species, species_cache, ids)
       IN  \E raising \in SUBSET asked :
             /\ failures + Cardinality(raising) <= MaxFailures
             /\ species_cache' =
                   prefetch_data(CatalogueRemote.species, species_cache, ids, raising)
             /\ failures' = failures + Cardinality(raising)
             /\ remote_used' =
                   (remote_used \/
                      \E i \in Elements(ids) : IntKey(i) \notin DOMAIN species_cache)
    /\ selected_pokemon' = <<>>
    /\ selected_types' = {}
    /\ slot' = 1
    /\ phase' = Position(1, <<>>)
    /\ untried' = ServedCandidates(selected_generations)
    /\ UNCHANGED <<pokemon_cache, evolution_cache, warnings, thread_started,
                   flushes, exhausted>>
    /\ UNCHANGED poolVars
    /\ UNCHANGED <<widgetVars, diskVars, candidateVars, resolverVars>>

\* The sets of requests, among those a step may issue, that raise in it
\* when failed requests have raised before the step: the step checks that
\* each of them was issued.
MayRaise(requests, failed) ==
    {r \in SUBSET requests : failed + Cardinality(r) <= MaxFailures}

\* Lines 438-455 for one selector that holds pokemon_name: the roster, the
\* used types and the caches after it. okN, okP, okL: whether the requests
\* of get_all_pokemon, get_pokemon_data and is_legendary return.
ManualPickBody(remote, p, s, roster, types, pokemon_name, okN, okP, okL) ==
    LET position == Index(get_all_pokemon(okN), pokemon_name)
        pokemon_id == position + 1
        nameFailed == IF okN THEN 0 ELSE 1
        skip(pc, sc, warned, requests, failed) ==
            [roster |-> roster, types |-> types, pokemon_cache |-> pc,
             species_cache |-> sc, warned |-> warned,
             requests |-> requests, failed |-> failed]
    IN
    IF position < 0
    THEN skip(p, s, FALSE, 1, nameFailed)
    ELSE
      LET pd == get_pokemon_data(remote, p, pokemon_id, okP) IN
      IF pd.data = None
      THEN skip(pd.cache, s, FALSE, 1 + pd.requests, pd.failed)
      ELSE
        LET lg == IF legendary_filter_var
                  THEN is_legendary(remote, s, pokemon_id, okL)
                  ELSE [value |-> FALSE, species_cache |-> s,
                        requests |-> 0, failed |-> 0]
        IN
        IF lg.value
        THEN skip(pd.cache, lg.species_cache, TRUE,
                  1 + pd.requests + lg.requests, pd.failed + lg.failed)
        ELSE [roster |-> Append(roster, pd.data),
              types |-> IF type_filter_var
                        THEN types \cup TypeNames(pd.data) ELSE types,
              pokemon_cache |-> pd.cache, species_cache |-> lg.species_cache,
              warned |-> FALSE,
              requests |-> 1 + pd.requests + lg.requests,
              failed |-> pd.failed + lg.failed]

\* One pass of the loop over pokemon_selectors (lines 437-455)
ManualPick ==
    /\ phase = "manual"
    /\ slot <= Len(pokemon_selectors)
    /\ \E raising \in MayRaise({"names", "pokemon", "species"}, failures) :
         LET r == ManualPickBody(CatalogueRemote, pokemon_cache, species_cache,
                                 selected_pokemon, selected_types,
                                 pokemon_selectors[slot],
                                 "names" \notin raising,
                                 "pokemon" \notin raising,
                                 "species" \notin raising)
         IN  /\ Cardinality(raising) = r.failed
             /\ failures' = failures + r.failed
             /\ pokemon_cache' = r.pokemon_cache
             /\ species_cache' = r.species_cache
             /\ selected_pokemon' = r.roster
             /\ selected_types' = r.types
             /\ warnings' = IF r.warned
                            THEN warnings \cup {"ManualPickNotable"}
                            ELSE warnings
             /\ phase' = Position(slot + 1, r.roster)
    /\ slot' = slot + 1
    /\ remote_used' = TRUE
    /\ UNCHANGED <<evolution_cache, thread_started, flushes, exhausted, untried>>
    /\ UNCHANGED poolVars
    /\ UNCHANGED <<widgetVars, diskVars, candidateVars, resolverVars>>

\* A for loop that hands out the same pokemon_id again after a continue.
AdvanceStuck(rest, pokemon_id) == rest

\* for pokemon_id in valid_ids (line 284): after a continue the loop goes on
\* with the ids of the shuffled list it has not handed out yet.
Advance(rest, pokemon_id) == rest \ {pokemon_id}

\* Lines 465-475 and the for loop's next pass: what the verdict v on
\* pokemon_id does to the locals and the dictionaries.
TakeVerdict(pokemon_id, raising, shuffled, v) ==
    /\ Cardinality(raising) = v.failed
    /\ failures' = failures + v.failed
    /\ remote_used' = (remote_used \/ v.requests > 0)
    /\ pokemon_cache' = v.pokemon_cache
    /\ species_cache' = v.species_cache
    /\ evolution_cache' = v.evolution_cache
    /\ selected_pokemon' = IF v.accepted THEN Append(selected_pokemon, v.data)
                           ELSE selected_pokemon
    /\ selected_types' =
          IF v.accepted /\ type_filter_var
          THEN selected_types \cup TypeNames(v.data)
          ELSE selected_types
    /\ untried' = IF v.accepted THEN shuffled
                  ELSE Advance(untried, pokemon_id)
    /\ phase' = Position(slot, IF v.accepted THEN Append(selected_pokemon, v.data)
                               ELSE selected_pokemon)

\* One pass of the for loop of get_random_pokemon (lines 284-303) inside the
\* while loop of lines 458-475. random.shuffle leaves every order possible,
\* so the next id is any id the loop has not visited yet. If the candidate
\* is returned, lines 473-475 append it and the next call shuffles anew.
TryCandidate ==
    /\ phase = "fill"
    /\ untried # {}
    /\ \E pokemon_id \in untried,
          raising \in MayRaise({"pokemon", "species", "chain", "species2"}, failures) :
         TakeVerdict(pokemon_id, raising, ServedCandidates(selected_generations),
             TryCandidateBody(CatalogueRemote, pokemon_cache,
                 species_cache, evolution_cache, pokemon_id,
                 TypesArg(type_filter_var, selected_types),
                 evolution_filter_var, legendary_filter_var,
                 "pokemon" \notin raising, "species" \notin raising,
                 "chain" \notin raising, "species2" \notin raising))
    /\ UNCHANGED <<slot, warnings, thread_started, flushes, exhausted>>
    /\ UNCHANGED poolVars
    /\ UNCHANGED <<widgetVars, diskVars, candidateVars, resolverVars>>

\* get_random_pokemon returns None (line 278 or 305): the warning of lines
\* 466-471 is posted and the while loop is left.
CandidatesExhausted ==
    /\ phase = "fill"
    /\ untried = {}
    /\ warnings' = warnings \cup {"CandidatesExhausted"}
    /\ exhausted' = TRUE
    /\ phase' = "finalize"
    /\ UNCHANGED <<pokemon_cache, species_cache, evolution_cache, slot,
                   selected_pokemon, selected_types, thread_started,
                   remote_used, failures, flushes, untried>>
    /\ UNCHANGED poolVars
    /\ UNCHANGED <<widgetVars, diskVars, candidateVars, resolverVars>>

\* The species lookups of update_ui (line 519), one per roster entry in
\* roster order; raising holds the positions whose request raises.
RECURSIVE DisplayEntries(_, _, _, _, _)
DisplayEntries(remote, s, roster, k, raising) ==
    IF k > Len(roster)
    THEN [species_cache |-> s, requests |-> 0, failed |-> 0]
    ELSE LET sp == get_pokemon_species_data(remote, s, roster[k].id,
                                            k \notin raising)
             rest == DisplayEntries(remote, sp.cache, roster, k + 1, raising)
         IN  [species_cache |-> rest.species_cache,
              requests |-> sp.requests + rest.requests,
              failed |-> sp.failed + rest.failed]

\* update_ui without the save_cache() of line 580.
update_ui_unsaved ==
    /\ phase = "finalize"
    /\ \E raising \in MayRaise(1..Len(selected_pokemon), failures) :
         LET d == DisplayEntries(CatalogueRemote, species_cache,
                                 selected_pokemon, 1, raising)
         IN  /\ Cardinality(raising) = d.failed
             /\ failures' = failures + d.failed
             /\ remote_used' = (remote_used \/ d.requests > 0)
             /\ species_cache' = d.species_cache
    /\ phase' = "done"
    /\ UNCHANGED <<pokemon_cache, evolution_cache, slot, selected_pokemon,
                   selected_types, warnings, thread_started, exhausted, untried,
                   flushes>>
    /\ UNCHANGED poolVars
    /\ UNCHANGED <<widgetVars, diskVars, candidateVars, resolverVars>>

\* update_ui (lines 478-580), run by the control thread once the sampler has
\* posted it (line 583): it shows the entries and ends with save_cache().
update_ui ==
    /\ phase = "finalize"
    /\ \E raising \in MayRaise(1..Len(selected_pokemon), failures),
          outcome \in SaveOutcomes :
         LET d == DisplayEntries(CatalogueRemote, species_cache,
                                 selected_pokemon, 1, raising)
             files == save_cache(pokemon_cache, d.species_cache,
                                 data_file, species_file, outcome)
             ioFailed == IF outcome = "saved" THEN 0 ELSE 1
         IN  /\ Cardinality(raising) = d.failed
             /\ failures + d.failed + ioFailed <= MaxFailures
             /\ failures' = failures + d.failed + ioFailed
             /\ remote_used' = (remote_used \/ d.requests > 0)
             /\ species_cache' = d.species_cache
             /\ saved_memory' = <<pokemon_cache, d.species_cache>>
             /\ data_file' = files.data_file
             /\ species_file' = files.species_file
    /\ flushes' = flushes + 1
    /\ phase' = "done"
    /\ UNCHANGED <<pokemon_cache, evolution_cache, slot, selected_pokemon,
                   selected_types, warnings, thread_started, exhausted, untried>>
    /\ UNCHANGED poolVars
    /\ UNCHANGED <<widgetVars, candidateVars, resolverVars>>

NextTeam ==
    \/ show_pokemon
    \/ PrefetchPokemon
    \/ PrefetchSpecies
    \/ ManualPick
    \/ TryCandidate
    \/ CandidatesExhausted
    \/ update_ui

SpecTeam == InitTeam /\ [][NextTeam]_vars

-----------------------------------------------------------------------------
(* Claims about the generation cycle (SpecTeam).                           *)

RosterIds == [i \in DOMAIN selected_pokemon |-> selected_pokemon[i].id]

Finished == phase \in {"finalize", "done"}

\* C1: the finished roster never holds the same PrimaryRecord id twice,
\* whatever the filters, the generations and the manual picks.
C1_NoDuplicateIds ==
    Finished =>
        \A i, j \in DOMAIN selected_pokemon :
            i # j => selected_pokemon[i].id # selected_pokemon[j].id

\* C2: with the type-uniqueness filter active, no two entries of the finished
\* roster (manual picks and random fill together) share a type tag.
C2_NoSharedTypes ==
    (Finished /\ type_filter_var) =>
        \A i, j \in DOMAIN selected_pokemon :
            i # j =>
                TypeNames(selected_pokemon[i]) \cap TypeNames(selected_pokemon[j]) = {}

\* The ids of the selected generations' intervals whose primary record the
\* catalogue holds: the ids the sampler can be handed a record for.
Served ==
    {i \in KnownIds :
        \E k \in DOMAIN selected_generations :
            /\ gen_ranges[selected_generations[k]][1] <= i
            /\ i <= gen_ranges[selected_generations[k]][2]}

\* The last id of the chain document the species record of id refers to.
ChainOf(id) == extract_chain(CatalogueChains[Entry(id).evolution_chain])

\* The record of id is turned down by an active filter at every draw in
\* which every request returns: it is notable and the notability filter is
\* on, or it is not the last id of its chain and the stage filter is on.
NeverPasses(id) ==
    \/ legendary_filter_var /\ (Entry(id).is_legendary \/ Entry(id).is_mythical)
    \/ evolution_filter_var /\ ChainOf(id)[Len(ChainOf(id))] # id

\* What is left to do: the steps a cycle can still take from this state.
Rank ==
    LET draw == Cardinality(Served) + 1
        fill(n) == 2 + (TeamSize - n) * draw
    IN  CASE phase = "idle" -> fill(0) + NumSelectors + 4
          [] phase = "prefetch_pokemon" -> fill(0) + NumSelectors + 3
          [] phase = "prefetch_species" -> fill(0) + NumSelectors + 2
          [] phase = "manual" ->
                fill(0) + (Len(pokemon_selectors) - slot) + 1
          [] phase = "fill" ->
                2 + (TeamSize - Len(selected_pokemon) - 1) * draw
                  + Cardinality(untried)
          [] phase = "finalize" -> 1
          [] OTHER -> 0

\* The guards of the actions of NextTeam, by position: only the loop over
\* the selectors asks for more than the position.
CanStep ==
    CASE phase = "manual" -> slot <= Len(pokemon_selectors)
      [] phase \in {"idle", "prefetch_pokemon", "prefetch_species",
                    "fill", "finalize"} -> TRUE
      [] OTHER -> FALSE

\* C3: every cycle terminates. Each step of a cycle lowers Rank, a natural
\* number, so a cycle takes finitely many steps and the fill loop makes
\* finitely many draws; a cycle that has not ended can take a step; and a
\* cycle without manual picks and without a raised request, whose candidate
\* set holds a single served id that never passes an active filter, ends
\* PARTIAL with an empty roster.
C3_CycleTerminates ==
    /\ [][Rank' < Rank]_vars
    /\ [](Rank >= 0)
    /\ [](phase \notin {"done", "aborted"} => CanStep)
    /\ []((/\ phase = "done"
           /\ pokemon_selectors = <<>>
           /\ failures = 0
           /\ \E id \in Served : Served = {id} /\ NeverPasses(id))
          => (/\ selected_pokemon = <<>>
              /\ exhausted
              /\ "CandidatesExhausted" \in warnings))

C3_Witness ==
    /\ phase = "done"
    /\ pokemon_selectors = <<>>
    /\ failures = 0
    /\ selected_generations = <<2>>
    /\ evolution_filter_var
    /\ Served = {152}
    /\ selected_pokemon = <<>>
    /\ exhausted

\* C4: the roster never holds more than six entries; a cycle ends with fewer
\* than six only with the CandidatesExhausted warning, given when the
\* shuffled candidates ran out in a draw, and ends with exactly six
\* otherwise.
C4_RosterSize ==
    /\ Len(selected_pokemon) <= 6
    /\ Finished =>
         /\ Len(selected_pokemon) < 6 =>
               (exhausted /\ untried = {} /\ "CandidatesExhausted" \in warnings)
         /\ ~exhausted => Len(selected_pokemon) = 6
         /\ exhausted <=> "CandidatesExhausted" \in warnings

C4_Witness ==
    /\ phase = "done"
    /\ type_filter_var
    /\ Len(selected_pokemon) = 2
    /\ exhausted
    /\ "CandidatesExhausted" \in warnings

\* C10: without a selected generation the cycle ends at once with the
\* NoGenerationSelected warning: no sampler thread, no request, the memory
\* tier as it was, no roster and no flush.
C10_NoGenerationSelected ==
    selected_generations = <<>> =>
        /\ phase \in {"idle", "aborted"}
        /\ phase = "aborted" => warnings = {"NoGenerationSelected"}
        /\ ~thread_started
        /\ ~remote_used
        /\ CachesCold
        /\ selected_pokemon = <<>>
        /\ flushes = 0
        /\ data_file = AbsentFile /\ species_file = AbsentFile

C10_Witness ==
    /\ phase = "aborted"
    /\ selected_generations = <<>>
    /\ Len(pokemon_selectors) = 2
    /\ warnings = {"NoGenerationSelected"}

\* The entity is flagged legendary or mythical by its species record.
Flagged(id) == Entry(id).is_legendary \/ Entry(id).is_mythical

\* The step handles the selector at index slot-1 / a draw of the fill loop
\* puts a record on the roster.
ManualStep == phase = "manual" /\ slot' = slot + 1
FillAccepts == phase = "fill" /\ Len(selected_pokemon') = Len(selected_pokemon) + 1

\* What the loop over the selectors must do with the name of the selector
\* at hand. A name of the index resolves to the id of its entity; the
\* entity counts as notable when its species record, as the step leaves the
\* memory tier, flags it (a species record that could not be fetched makes
\* it not notable). The name index is known to have answered when no
\* request of the step raised or when the step fetched the primary record.
ManualPickAsRequired ==
    LET pokemon_name == pokemon_selectors[slot]
        resolves == \E e \in Known : e.name = pokemon_name
        id == (CHOOSE e \in Known : e.name = pokemon_name).id
        answered == failures' = failures \/ IntKey(id) \notin DOMAIN pokemon_cache
        fetched == IntKey(id) \in DOMAIN pokemon_cache'
        turnedDown == /\ legendary_filter_var
                      /\ Flagged(id)
                      /\ IntKey(id) \in DOMAIN species_cache'
        put == Append(selected_pokemon, CatalogueRemote.pokemon[id])
    IN  IF ~resolves
        THEN selected_pokemon' = selected_pokemon
        ELSE /\ selected_pokemon' \in {selected_pokemon, put}
             /\ (answered /\ fetched) =>
                   /\ selected_pokemon' = put <=> ~turnedDown
                   /\ turnedDown => "ManualPickNotable" \in warnings'
                   /\ ~turnedDown => warnings' = warnings
             /\ turnedDown => selected_pokemon' = selected_pokemon

\* What holds of a record the fill loop puts on the roster: it shares no
\* type with the used types if the type filter is on, it is the last id of
\* its chain if the stage filter is on and its chain was resolved, and its
\* species record does not flag it if the notability filter is on and the
\* record is in the memory tier.
FillEntryPassedAll ==
    LET entry == selected_pokemon'[Len(selected_pokemon')]
        id == entry.id
    IN  /\ entry = CatalogueRemote.pokemon[id]
        /\ type_filter_var => TypeNames(entry) \cap selected_types = {}
        /\ (evolution_filter_var /\ IntKey(id) \in DOMAIN evolution_cache') =>
              LET chain == evolution_cache'[IntKey(id)]
              IN  chain # <<>> /\ chain[Len(chain)] = id
        /\ (legendary_filter_var /\ IntKey(id) \in DOMAIN species_cache') =>
              ~Flagged(id)

\* C13: a manual pick whose name resolves and whose primary record is
\* fetched is put on the roster if and only if it is not the case that the
\* notability filter is on and the entity is notable (then it is skipped
\* with the warning); the type and stage filters play no part in it. Every
\* record the fill loop puts on the roster has passed all three filters.
C13_ManualPickAsymmetry ==
    /\ [][ManualStep => ManualPickAsRequired]_vars
    /\ [][FillAccepts => FillEntryPassedAll]_vars

\* Mewtwo is turned down with the warning; Chikorita, not the last of its
\* chain, is put on the roster with the stage filter on; Venusaur or the
\* fill loop's own entries are not needed for it.
C13_Witness ==
    /\ pokemon_selectors = <<"Mewtwo", "Chikorita">>
    /\ type_filter_var /\ evolution_filter_var /\ legendary_filter_var
    /\ phase = "done"
    /\ "ManualPickNotable" \in warnings
    /\ Len(selected_pokemon) >= 1
    /\ selected_pokemon[1].id = 152
    /\ \A i \in DOMAIN selected_pokemon : selected_pokemon[i].id # 150

TurnedDownByFilter(id) ==
    \/ /\ type_filter_var
       /\ Elements(Entry(id).types) \cap selected_types # {}
    \/ /\ evolution_filter_var
       /\ IntKey(id) \in DOMAIN evolution_cache
       /\ evolution_cache[IntKey(id)] # <<>>
       /\ evolution_cache[IntKey(id)][Len(evolution_cache[IntKey(id)])] # id
    \/ /\ legendary_filter_var
       /\ IntKey(id) \in DOMAIN species_cache
       /\ Flagged(id)

\* C21: a record the fill loop puts on the roster passed every active
\* filter when it was accepted, and, when no request of the draw raised, it
\* is acceptable by the catalogue's own documents; get_random_pokemon gives
\* no record only when every id of the candidate set that has a record was
\* either not fetched or turned down by an active filter, and, when no
\* request raised in the cycle, only when every such id shares a type with
\* the roster or never passes the stage and notability filters.
C21_FillEntriesAcceptable ==
    /\ [][FillAccepts =>
            /\ FillEntryPassedAll
            /\ failures' = failures =>
                  LET id == selected_pokemon'[Len(selected_pokemon')].id
                  IN  /\ id \in Served
                      /\ ~NeverPasses(id)
                      /\ type_filter_var =>
                            Elements(Entry(id).types) \cap selected_types = {}]_vars
    /\ [](exhausted =>
            \A id \in Served :
                \/ IntKey(id) \notin DOMAIN pokemon_cache
                \/ TurnedDownByFilter(id))
    /\ []((exhausted /\ failures = 0) =>
            \A id \in Served :
                \/ type_filter_var /\ Elements(Entry(id).types) \cap selected_types # {}
                \/ NeverPasses(id))

\* Type and notability filters on, both generations, no manual pick, no
\* failure: one of the two grass entities is drawn, the other shares its
\* type, Mewtwo is notable, and the next draw gives no record.
C21_Witness ==
    /\ phase = "done"
    /\ exhausted
    /\ failures = 0
    /\ pokemon_selectors = <<>>
    /\ selected_generations = <<1, 2>>
    /\ type_filter_var /\ legendary_filter_var /\ ~evolution_filter_var
    /\ Len(selected_pokemon) = 1

\* Every entry of the dictionary before the step is in it after the step,
\* under the same key and with the same record.
Keeps(before, after) ==
    \A key \in DOMAIN before :
        /\ key \in DOMAIN after
        /\ after[key] = before[key]

\* C24: the memory tier never evicts. Over a whole cycle (the two prefetch
\* calls, the fetches and checks of the manual picks and of the draws, the
\* resolver, the lookups of update_ui and save_cache()) every step keeps
\* every entry of pokemon_cache and of species_cache: no key is removed and
\* no record is replaced by another one.
C24_MemoryNeverEvicts ==
    /\ [][Keeps(pokemon_cache, pokemon_cache')]_vars
    /\ [][Keeps(species_cache, species_cache')]_vars

\* Generation 2 with the stage filter on and Venusaur as a manual pick: the
\* prefetch calls stored 152, the manual pick added the record of 3, the
\* lookups of update_ui its species record, and the flush has run.
C24_Witness ==
    /\ phase = "done"
    /\ flushes = 1
    /\ selected_generations = <<2>>
    /\ pokemon_selectors = <<"Venusaur">>
    /\ evolution_filter_var
    /\ IntKey(152) \in DOMAIN pokemon_cache
    /\ IntKey(3) \in DOMAIN pokemon_cache
    /\ IntKey(152) \in DOMAIN species_cache
    /\ IntKey(3) \in DOMAIN species_cache

\* The type names of the records on the roster, manual picks and draws
\* alike.
RosterTypes ==
    UNION {Elements(selected_pokemon[i].types) : i \in DOMAIN selected_pokemon}

\* A draw of the fill loop passes over an id.
FillRejects ==
    /\ phase = "fill"
    /\ selected_pokemon' = selected_pokemon
    /\ untried' # untried

\* C25: with the type filter on, selected_types is at every moment of the
\* cycle the union of the type names of the records on the roster; with the
\* filter off it stays empty, and no candidate is passed over for its types:
\* a draw that rejects an id without a failed request rejects it for its
\* stage or its notability.
C25_UsedTypesInvariant ==
    /\ [](selected_types = IF type_filter_var THEN RosterTypes ELSE {})
    /\ [][(FillRejects /\ ~type_filter_var /\ failures' = failures) =>
             \A id \in untried \ untried' : NeverPasses(id)]_vars
    /\ [][(FillAccepts /\ ~type_filter_var) => selected_types' = {}]_vars

\* Venusaur picked by hand, Mewtwo drawn: three type names are in use.
C25_Witness ==
    /\ type_filter_var
    /\ pokemon_selectors = <<"Venusaur">>
    /\ Len(selected_pokemon) = 2
    /\ selected_pokemon[2].id = 150
    /\ selected_types = {"grass", "poison", "psychic"}
    /\ phase = "fill"

\* The id lies in the interval of a selected generation.
InCandidateSet(id) ==
    \E k \in DOMAIN selected_generations :
        /\ gen_ranges[selected_generations[k]][1] <= id
        /\ id <= gen_ranges[selected_generations[k]][2]

\* C26: a record the fill loop puts on the roster has an id of the
\* candidate set of the selected generations, so every roster entry that is
\* outside of it is a manual pick; a manual pick is not tested against the
\* candidate set: a name that resolves, whose requests return and that the
\* notability filter does not turn down is put on the roster wherever its
\* id lies.
C26_RangeMembership ==
    /\ [][FillAccepts =>
            InCandidateSet(selected_pokemon'[Len(selected_pokemon')].id)]_vars
    /\ [](\A i \in DOMAIN selected_pokemon :
             ~InCandidateSet(selected_pokemon[i].id) =>
                 /\ i <= Len(pokemon_selectors)
                 /\ \E n \in DOMAIN pokemon_selectors :
                       /\ n < slot
                       /\ pokemon_selectors[n] = Entry(selected_pokemon[i].id).name)
    /\ [][(/\ ManualStep
           /\ failures' = failures
           /\ \E e \in Known :
                 /\ e.name = pokemon_selectors[slot]
                 /\ ~(legendary_filter_var /\ Flagged(e.id)))
          => \E e \in Known :
                 /\ e.name = pokemon_selectors[slot]
                 /\ selected_pokemon' =
                       Append(selected_pokemon, CatalogueRemote.pokemon[e.id])]_vars

\* Generation 2 alone: Venusaur (id 3) is on the roster by hand, followed
\* by a drawn Chikorita.
C26_Witness ==
    /\ selected_generations = <<2>>
    /\ pokemon_selectors = <<"Venusaur">>
    /\ Len(selected_pokemon) >= 2
    /\ selected_pokemon[1].id = 3
    /\ selected_pokemon[2].id = 152
    /\ ~InCandidateSet(3)
    /\ phase = "fill"

-----------------------------------------------------------------------------
(* The evolution-chain resolver on its own: get_evolution_chain and        *)
(* is_fully_evolved called on a remote that serves one chain document.     *)

\* The largest number of nodes of a drawn chain document.
MaxNodes == 4
\* The calls made in one behaviour of SpecResolver.
MaxCalls == 3

\* The ids the nodes of a drawn chain document carry.
ChainIds == {1, 25, 133, 493, 1010}

\* The shapes of a tree of n nodes: node 1 is the root, every other node
\* hangs under a node of a smaller number.
TreeShapes(n) ==
    {parent \in [1..n -> 0..n] :
        /\ parent[1] = 0
        /\ \A k \in 2..n : parent[k] \in 1..(k - 1)}

\* The ways of giving the n nodes ids of their own.
Labellings(n) ==
    {label \in [1..n -> ChainIds] :
        \A a, b \in 1..n : a # b => label[a] # label[b]}

\* The document of the subtree of node v: its children in the order of
\* their numbers.
RECURSIVE Document(_, _, _)
Document(parent, label, v) ==
    LET kids == AscendingSeq({k \in DOMAIN parent : parent[k] = v})
    IN  Node(label[v], [i \in DOMAIN kids |-> Document(parent, label, kids[i])])

\* Every chain document of at most MaxNodes nodes with ids of ChainIds:
\* evolution_data['chain'] of line 210.
ChainDocuments ==
    UNION {{Document(parent, label, 1) :
                parent \in TreeShapes(n), label \in Labellings(n)} :
           n \in 1..MaxNodes}

\* The id a node of the document names
NodeId(node) == int(node.species.url[Len(node.species.url) - 1])

\* The nodes of a document, each as the list of child positions that leads
\* to it from the root.
RECURSIVE Paths(_)
Paths(node) ==
    {<<>>} \cup
    UNION {{<<k>> \o q : q \in Paths(node.evolves_to[k])} :
              k \in DOMAIN node.evolves_to}

RECURSIVE NodeAt(_, _)
NodeAt(node, path) ==
    IF path = <<>> THEN node
    ELSE NodeAt(node.evolves_to[path[1]], Tail(path))

NodeIds(node) == {NodeId(NodeAt(node, path)) : path \in Paths(node)}

\* The id of a species record whose chain document does not name it.
ForeignIds == {7}

\* The remote of the resolver: every species record refers to the one chain
\* document; it is served for the ids of the document and for a foreign id.
DocumentRemote(document) ==
    [pokemon |-> [i \in {} |-> None],
     species |-> [i \in NodeIds(document) \cup ForeignIds |->
                    [id |-> i, is_legendary |-> FALSE, is_mythical |-> FALSE,
                     evolution_chain |-> 1]],
     chains  |-> [u \in {1} |-> document]]

QueryIds(document) == NodeIds(document) \cup ForeignIds

\* Where the answer of a get_evolution_chain call came from: the dictionary
\* (line 199-200), the traversal (lines 212-223), or a fallback return of
\* the empty list (line 204 or 226).
Source(before, after, pokemon_id) ==
    IF IntKey(pokemon_id) \in DOMAIN before THEN "cache"
    ELSE IF IntKey(pokemon_id) \in DOMAIN after THEN "fetch"
    ELSE "failed"

teamVars == <<slot, selected_pokemon, selected_types, warnings,
              thread_started, remote_used, flushes, exhausted, untried>>

\* A call get_evolution_chain(pokemon_id) made by a caller that keeps the
\* list it is given.
CallGetEvolutionChain(next_phase) ==
    /\ \E pokemon_id \in QueryIds(evolution_data),
          raising \in MayRaise({"species", "chain"}, failures) :
         LET r == get_evolution_chain(DocumentRemote(evolution_data),
                      species_cache, evolution_cache, pokemon_id,
                      "species" \notin raising, "chain" \notin raising)
             source == Source(evolution_cache, r.evolution_cache, pokemon_id)
         IN  /\ Cardinality(raising) = r.failed
             /\ failures' = failures + r.failed
             /\ species_cache' = r.species_cache
             /\ evolution_cache' = r.evolution_cache
             /\ last_call' = [op |-> "get_evolution_chain", id |-> pokemon_id,
                              chain |-> r.chain, value |-> FALSE,
                              source |-> source]
             /\ calls' = Append(calls, [id |-> pokemon_id, chain |-> r.chain,
                                        source |-> source])
    /\ phase' = next_phase
    /\ UNCHANGED <<pokemon_cache, evolution_data>>
    /\ UNCHANGED poolVars
    /\ UNCHANGED <<widgetVars, diskVars, candidateVars, teamVars>>

\* A call is_fully_evolved(pokemon_id)
CallIsFullyEvolved(next_phase) ==
    /\ \E pokemon_id \in QueryIds(evolution_data),
          raising \in MayRaise({"species", "chain"}, failures) :
         LET r == is_fully_evolved(DocumentRemote(evolution_data),
                      species_cache, evolution_cache, pokemon_id,
                      "species" \notin raising, "chain" \notin raising)
             source == Source(evolution_cache, r.evolution_cache, pokemon_id)
         IN  /\ Cardinality(raising) = r.failed
             /\ failures' = failures + r.failed
             /\ species_cache' = r.species_cache
             /\ evolution_cache' = r.evolution_cache
             /\ last_call' = [op |-> "is_fully_evolved", id |-> pokemon_id,
                              chain |-> r.chain, value |-> r.value,
                              source |-> source]
             /\ calls' = Append(calls, [id |-> pokemon_id, chain |-> r.chain,
                                        source |-> source])
    /\ phase' = next_phase
    /\ UNCHANGED <<pokemon_cache, evolution_data>>
    /\ UNCHANGED poolVars
    /\ UNCHANGED <<widgetVars, diskVars, candidateVars, teamVars>>

-----------------------------------------------------------------------------
(* SpecTraverse: one call of the resolver, on cold dictionaries, for every *)
(* chain document of ChainDocuments and every id.                          *)

InitTraverse ==
    /\ evolution_data \in ChainDocuments
    /\ calls = <<>>
    /\ last_call = [op |-> "none", id |-> 0, chain |-> <<>>, value |-> FALSE,
                    source |-> "none"]
    /\ phase = "query"
    /\ CachesCold /\ DiskAbsent /\ FiltersOff /\ TeamIdle /\ CandidatesIdle /\ ExecutorIdle
    /\ selected_generations = <<>>

TraverseChain == phase = "query" /\ CallGetEvolutionChain("answered")

TraverseStage == phase = "query" /\ CallIsFullyEvolved("answered")

NextTraverse ==
    \/ TraverseChain
    \/ TraverseStage

SpecTraverse == InitTraverse /\ [][NextTraverse]_vars

\* C7: is_fully_evolved(id) is true if get_evolution_chain(id) gave the empty
\* sequence, true if id is the last element of a non-empty sequence, and
\* false in every other case.
C7_FullyEvolvedCharacterisation ==
    last_call.op = "is_fully_evolved" =>
        LET chain == last_call.chain IN
        /\ chain = <<>> => last_call.value
        /\ (chain # <<>> /\ last_call.id = chain[Len(chain)]) => last_call.value
        /\ (chain # <<>> /\ last_call.id # chain[Len(chain)]) => ~last_call.value

C7_Witness ==
    /\ last_call.op = "is_fully_evolved"
    /\ Len(last_call.chain) = 4
    /\ last_call.id = last_call.chain[1]
    /\ ~last_call.value

\* The position of the id of the node at path in the returned sequence
Where(chain, document, path) ==
    CHOOSE i \in DOMAIN chain : chain[i] = NodeId(NodeAt(document, path))

\* path is a proper prefix of longer: the node at longer is a descendant of
\* the node at path.
ProperPrefix(path, longer) ==
    /\ Len(path) < Len(longer)
    /\ SubSeq(longer, 1, Len(path)) = path

\* C8: for every chain document, branching ones included, the sequence
\* get_evolution_chain returns from a traversal is the pre-order of the
\* tree: every node gives exactly one element, a node's id comes before the
\* ids of all its descendants, and the subtrees of a node's children come
\* in the order the document lists the children.
C8_PreOrderTraversal ==
    (phase = "answered" /\ last_call.source = "fetch") =>
        LET chain == last_call.chain
            nodes == Paths(evolution_data)
        IN  /\ Len(chain) = Cardinality(nodes)
            /\ \A p \in nodes :
                   \E i \in DOMAIN chain : chain[i] = NodeId(NodeAt(evolution_data, p))
            /\ \A p, q \in nodes :
                   ProperPrefix(p, q) =>
                       Where(chain, evolution_data, p) < Where(chain, evolution_data, q)
            /\ \A p, q \in nodes :
                   (\E k \in 1..Min(Len(p), Len(q)) :
                        /\ SubSeq(p, 1, k - 1) = SubSeq(q, 1, k - 1)
                        /\ p[k] < q[k])
                   => Where(chain, evolution_data, p) < Where(chain, evolution_data, q)

C8_Witness ==
    /\ phase = "answered"
    /\ last_call.source = "fetch"
    /\ evolution_data =
          Node(25, <<Node(1010, <<Node(1, <<>>)>>), Node(133, <<>>)>>)
    /\ last_call.chain = <<25, 1010, 1, 133>>

-----------------------------------------------------------------------------
(* SpecResolver: up to MaxCalls calls of the resolver, one after another,  *)
(* on a remote whose documents stay as they are.                           *)

InitResolver ==
    /\ evolution_data \in {CatalogueChains[u] : u \in DOMAIN CatalogueChains}
    /\ calls = <<>>
    /\ last_call = [op |-> "none", id |-> 0, chain |-> <<>>, value |-> FALSE,
                    source |-> "none"]
    /\ phase = "resolver"
    /\ CachesCold /\ DiskAbsent /\ FiltersOff /\ TeamIdle /\ CandidatesIdle /\ ExecutorIdle
    /\ selected_generations = <<>>

ResolveChain ==
    /\ phase = "resolver"
    /\ Len(calls) < MaxCalls
    /\ CallGetEvolutionChain("resolver")

CheckFullyEvolved ==
    /\ phase = "resolver"
    /\ Len(calls) < MaxCalls
    /\ CallIsFullyEvolved("resolver")

NextResolver ==
    \/ ResolveChain
    \/ CheckFullyEvolved

SpecResolver == InitResolver /\ [][NextResolver]_vars

Resolved == Len(calls') = Len(calls) + 1

\* C23: a call of get_evolution_chain(id) whose id is not in the evolution
\* cache and whose requests all return adds exactly one entry, under the id
\* it was called with, holding the sequence it returns; no other id of the
\* chain gets an entry and no entry changes. A call whose request raises
\* returns the empty list and adds nothing, so that the id is still missing
\* and the next call for it fetches again. A call that finds its id in the
\* cache leaves the cache as it is.
C23_OneEntryPerResolve ==
    /\ [][Resolved =>
            LET key == IntKey(last_call'.id)
            IN  /\ \A k \in DOMAIN evolution_cache :
                      /\ k \in DOMAIN evolution_cache'
                      /\ evolution_cache'[k] = evolution_cache[k]
                /\ IF key \in DOMAIN evolution_cache
                   THEN evolution_cache' = evolution_cache
                   ELSE IF failures' = failures
                   THEN /\ DOMAIN evolution_cache' = DOMAIN evolution_cache \cup {key}
                        /\ evolution_cache'[key] = last_call'.chain
                        /\ last_call'.chain # <<>>
                   ELSE /\ evolution_cache' = evolution_cache
                        /\ last_call'.chain = <<>>]_vars
    /\ [](\A k \in DOMAIN evolution_cache :
             \E i \in DOMAIN calls : calls[i].id = k.int /\ k.type = "int")

\* The first call for an id that is not the root of its chain fails, the
\* second one fetches: the cache holds one entry, under that id.
C23_Witness ==
    /\ Len(calls) = 2
    /\ calls[1].id = calls[2].id
    /\ calls[1].source = "failed"
    /\ calls[2].source = "fetch"
    /\ Len(calls[2].chain) = 3
    /\ calls[2].id = calls[2].chain[3]
    /\ DOMAIN evolution_cache = {IntKey(calls[2].id)}

-----------------------------------------------------------------------------
(* SpecCache: the memory tier and the two cache files over the fetches of  *)
(* a process, its save_cache(), the load_cache() of the process started    *)
(* next and the fetches of that process.                                   *)

\* load_cache without the try of line 47: the exception of json.load leaves
\* the function.
load_cache_unguarded(data, spfile) ==
    LET pokemon == IF data.state = "json" THEN data.content ELSE EmptyDict
        species == IF data.state # "corrupt" /\ spfile.state = "json"
                   THEN spfile.content ELSE EmptyDict
    IN  [pokemon_cache |-> pokemon, species_cache |-> species,
         raised |-> data.state = "corrupt" \/ spfile.state = "corrupt"]

\* load_cache (lines 44-55) in a process that has just started, so that the
\* two dictionaries are the empty ones of lines 24-25: a file that exists is
\* read with json.load; the first exception ends the function.
\* The exception of json.load reaches the caller when it is not caught
\* (raised).
load_cache(data, spfile) ==
    IF data.state = "corrupt"
    THEN [pokemon_cache |-> EmptyDict, species_cache |-> EmptyDict,
          raised |-> FALSE]
    ELSE LET pokemon == IF data.state = "json" THEN data.content ELSE EmptyDict
         IN  IF spfile.state = "json"
             THEN [pokemon_cache |-> pokemon, species_cache |-> spfile.content,
                   raised |-> FALSE]
             ELSE [pokemon_cache |-> pokemon, species_cache |-> EmptyDict,
                   raised |-> FALSE]

InitCache ==
    /\ phase = "running"
    /\ CachesCold /\ DiskAbsent /\ FiltersOff /\ TeamIdle /\ CandidatesIdle /\ ExecutorIdle
    /\ ResolverIdle
    /\ selected_generations = <<>>

\* A call get_pokemon_data(pokemon_id) of the running process
FetchPokemon ==
    /\ phase \in {"running", "loaded"}
    /\ \E pokemon_id \in KnownIds, raising \in MayRaise({"pokemon"}, failures) :
         LET r == get_pokemon_data(CatalogueRemote, pokemon_cache, pokemon_id,
                                   "pokemon" \notin raising)
         IN  /\ Cardinality(raising) = r.failed
             /\ failures' = failures + r.failed
             /\ pokemon_cache' = r.cache
    /\ UNCHANGED <<species_cache, evolution_cache, phase>>
    /\ UNCHANGED <<slot, selected_pokemon, selected_types, warnings,
                   thread_started, remote_used, flushes, exhausted, untried>>
    /\ UNCHANGED poolVars
    /\ UNCHANGED <<widgetVars, diskVars, candidateVars, resolverVars>>

\* A call get_pokemon_species_data(pokemon_id) of the running process
FetchSpecies ==
    /\ phase \in {"running", "loaded"}
    /\ \E pokemon_id \in KnownIds, raising \in MayRaise({"species"}, failures) :
         LET r == get_pokemon_species_data(CatalogueRemote, species_cache,
                                           pokemon_id, "species" \notin raising)
         IN  /\ Cardinality(raising) = r.failed
             /\ failures' = failures + r.failed
             /\ species_cache' = r.cache
    /\ UNCHANGED <<pokemon_cache, evolution_cache, phase>>
    /\ UNCHANGED <<slot, selected_pokemon, selected_types, warnings,
                   thread_started, remote_used, flushes, exhausted, untried>>
    /\ UNCHANGED poolVars
    /\ UNCHANGED <<widgetVars, diskVars, candidateVars, resolverVars>>

\* save_cache() as the last thing the first process does
SaveCache ==
    /\ phase = "running"
    /\ \E outcome \in SaveOutcomes :
         LET files == save_cache(pokemon_cache, species_cache,
                                 data_file, species_file, outcome)
             ioFailed == IF outcome = "saved" THEN 0 ELSE 1
         IN  /\ failures + ioFailed <= MaxFailures
             /\ failures' = failures + ioFailed
             /\ data_file' = files.data_file
             /\ species_file' = files.species_file
    /\ saved_memory' = <<pokemon_cache, species_cache>>
    /\ phase' = "saved"
    /\ UNCHANGED <<pokemon_cache, species_cache, evolution_cache>>
    /\ UNCHANGED <<slot, selected_pokemon, selected_types, warnings,
                   thread_started, remote_used, flushes, exhausted, untried>>
    /\ UNCHANGED poolVars
    /\ UNCHANGED <<widgetVars, candidateVars, resolverVars>>

\* A new process starts: the dictionaries of lines 24-26 are empty, main()
\* calls load_cache() (line 594) and goes on to build the window; an
\* exception that left load_cache would end main().
LoadCache ==
    /\ phase = "saved"
    /\ LET memory == load_cache(data_file, species_file)
       IN  /\ pokemon_cache' = memory.pokemon_cache
           /\ species_cache' = memory.species_cache
           /\ phase' = IF memory.raised THEN "crashed" ELSE "loaded"
    /\ evolution_cache' = EmptyDict
    /\ UNCHANGED <<slot, selected_pokemon, selected_types, warnings,
                   thread_started, remote_used, failures, flushes, exhausted,
                   untried>>
    /\ UNCHANGED poolVars
    /\ UNCHANGED <<widgetVars, diskVars, candidateVars, resolverVars>>

NextCache ==
    \/ FetchPokemon
    \/ FetchSpecies
    \/ SaveCache
    \/ LoadCache

SpecCache == InitCache /\ [][NextCache]_vars

\* save_cache() wrote both files in full.
SavedInFull ==
    /\ data_file = JsonFile(saved_memory[1])
    /\ species_file = JsonFile(saved_memory[2])

\* C6: after save_cache() and the load_cache() of a new process the memory
\* tier maps the same ids, under the same key convention, to records with
\* the same field values as the memory tier that was saved.
C6_CacheRoundTrip ==
    (phase = "loaded" /\ SavedInFull) =>
        /\ pokemon_cache = saved_memory[1]
        /\ species_cache = saved_memory[2]

\* C14: load_cache() never raises, so that main() goes on with the memory
\* tier it left; it changes no file; and a kind whose file is missing or
\* cannot be parsed has an empty dictionary after it.
C14_LoadFailsSoft ==
    /\ [](phase # "crashed")
    /\ [][phase = "saved" =>
            /\ phase' = "loaded"
            /\ data_file' = data_file /\ species_file' = species_file
            /\ data_file.state \in {"absent", "corrupt"} =>
                  pokemon_cache' = EmptyDict
            /\ species_file.state \in {"absent", "corrupt"} =>
                  species_cache' = EmptyDict]_vars

\* The species file is cut off, the data file is whole: the new process
\* holds the records of the data file and no species record.
C14_Witness ==
    /\ phase = "loaded"
    /\ species_file = CorruptFile
    /\ species_cache = EmptyDict
    /\ data_file.state = "json"
    /\ pokemon_cache = data_file.content
    /\ pokemon_cache # EmptyDict
    /\ saved_memory[2] # EmptyDict

\* C15: after a save_cache() call, one that fails part-way included, the
\* two files hold either what they held before the call (here: no file) or
\* the memory tier as it was at the call, both of them: never a file that is
\* cut off, never one kind written and the other not.
C15_FlushNeverPartial ==
    phase \in {"saved", "loaded"} =>
        \/ data_file = AbsentFile /\ species_file = AbsentFile
        \/ SavedInFull

\* C16: a record load_cache() has loaded is a hit of the memory tier for
\* its id: no request is issued for that id, so the new process never
\* stores a second record of an id next to the one that was loaded.
C16_LoadedRecordIsMemoryHit ==
    phase = "loaded" =>
        /\ \A j, k \in DOMAIN pokemon_cache :
              pokemon_cache[j].id = pokemon_cache[k].id => j = k
        /\ \A j, k \in DOMAIN species_cache :
              species_cache[j].id = species_cache[k].id => j = k

-----------------------------------------------------------------------------
(* The prefetcher step by step: the pool of prefetch_pokemon_data and      *)
(* prefetch_species_data, its tasks, and a fetch of another thread.        *)

\* The longest list handed to a prefetch call.
MaxIds == 11

\* ThreadPoolExecutor(max_workers=10), lines 105 and 119
max_workers == 10

\* The lists a prefetch call is given: the ids up to 152, at most MaxIds.
PrefetchLists == {Range(153 - n, 153) : n \in 0..MaxIds}

\* The dictionary and the documents of a kind of record
Memory(kind) == IF kind = "pokemon" THEN pokemon_cache ELSE species_cache

Documents(kind) ==
    IF kind = "pokemon" THEN CatalogueRemote.pokemon ELSE CatalogueRemote.species

\* A dictionary rebound to a new one that holds the record alone.
WriteMemoryAlone(kind, pokemon_id, record) ==
    IF kind = "pokemon"
    THEN /\ pokemon_cache' = DictSet(EmptyDict, IntKey(pokemon_id), record)
         /\ UNCHANGED species_cache
    ELSE /\ species_cache' = DictSet(EmptyDict, IntKey(pokemon_id), record)
         /\ UNCHANGED pokemon_cache

\* pokemon_cache[pokemon_id] = response.json() (lines 101, 175) and
\* species_cache[pokemon_id] = ... (lines 115, 191): one item assignment on
\* the dictionary as it is at that moment.
WriteMemory(kind, pokemon_id, record) ==
    IF kind = "pokemon"
    THEN /\ pokemon_cache' = DictSet(pokemon_cache, IntKey(pokemon_id), record)
         /\ UNCHANGED species_cache
    ELSE /\ species_cache' = DictSet(species_cache, IntKey(pokemon_id), record)
         /\ UNCHANGED pokemon_cache

\* A pool that starts a thread for every task.
WorkerAlwaysFree(running) == TRUE

\* The pool runs a task only on one of its max_workers threads.
WorkerFree(running) == Cardinality(running) < max_workers

\* A with block that is left as soon as the tasks are submitted.
AllSubmitted(pool) == TRUE

\* Leaving the with block calls shutdown(wait=True): it returns when no
\* task is queued or running.
AllTasksDone(pool) ==
    /\ pool.next > Len(pool.ids)
    /\ pool.running = {}

\* A task whose exception ends the pool's work: the queued tasks are dropped.
TaskRaisedCancels(pool, t) ==
    [pool EXCEPT !.running = @ \ {t}, !.raised = @ \cup {t},
                 !.next = Len(pool.ids) + 1]

\* except Exception: pass (lines 102-103, 116-117): the task ends, nothing
\* else happens.
TaskRaised(pool, t) ==
    [pool EXCEPT !.running = @ \ {t}, !.raised = @ \cup {t}]

restVars == <<evolution_cache, failures, widgetVars, diskVars,
              candidateVars, resolverVars, teamVars>>

InitPrefetch ==
    /\ pokemon_ids \in PrefetchLists
    /\ valid_ids = <<>>
    /\ phase = "prefetch_pokemon"
    /\ CachesCold /\ DiskAbsent /\ FiltersOff /\ TeamIdle /\ ExecutorIdle
    /\ ResolverIdle
    /\ selected_generations = <<>>

\* with ThreadPoolExecutor(max_workers=10) as executor:
\*     executor.map(fetch_single_pokemon, pokemon_ids)
\* map submits one task per id, in list order, and returns.
SubmitTasks ==
    /\ phase \in {"prefetch_pokemon", "prefetch_species"}
    /\ executor' = [kind |-> IF phase = "prefetch_pokemon" THEN "pokemon"
                             ELSE "species",
                    ids |-> pokemon_ids, next |-> 1, running |-> {},
                    raised |-> {}, returned |-> FALSE]
    /\ phase' = IF phase = "prefetch_pokemon" THEN "shutdown_pokemon"
                ELSE "shutdown_species"
    /\ UNCHANGED <<pokemon_cache, species_cache, foreground>>
    /\ UNCHANGED restVars

\* A worker thread takes the next queued task and runs it up to its request
\* (lines 97-99): a task whose id is in the dictionary ends at once.
StartTask ==
    /\ executor.kind # "none"
    /\ executor.next <= Len(executor.ids)
    /\ WorkerFree(executor.running)
    /\ executor' =
          IF IntKey(executor.ids[executor.next]) \in DOMAIN Memory(executor.kind)
          THEN [executor EXCEPT !.next = @ + 1]
          ELSE [executor EXCEPT !.next = @ + 1,
                                !.running = @ \cup {executor.next}]
    /\ remote_used' =
          (remote_used \/
             IntKey(executor.ids[executor.next]) \notin DOMAIN Memory(executor.kind))
    /\ UNCHANGED <<pokemon_cache, species_cache, foreground, phase, failures>>
    /\ UNCHANGED <<evolution_cache, widgetVars, diskVars, candidateVars,
                   resolverVars, slot, selected_pokemon, selected_types,
                   warnings, thread_started, flushes, exhausted, untried>>

\* The request of a running task returns and the task stores the record
\* (lines 100-101), or it raises and the task swallows it (lines 102-103).
FinishTask ==
    /\ \E t \in executor.running, ok \in BOOLEAN :
         LET pokemon_id == executor.ids[t]
             served == pokemon_id \in DOMAIN Documents(executor.kind)
         IN  IF ok
             THEN /\ served
                  /\ WriteMemory(executor.kind, pokemon_id,
                                 Documents(executor.kind)[pokemon_id])
                  /\ executor' = [executor EXCEPT !.running = @ \ {t}]
                  /\ UNCHANGED failures
             ELSE /\ served => failures < MaxFailures
                  /\ failures' = IF served THEN failures + 1 ELSE failures
                  /\ executor' = TaskRaised(executor, t)
                  /\ UNCHANGED <<pokemon_cache, species_cache>>
    /\ UNCHANGED <<foreground, phase>>
    /\ UNCHANGED <<evolution_cache, widgetVars, diskVars, candidateVars,
                   resolverVars, slot, selected_pokemon, selected_types,
                   warnings, thread_started, remote_used, flushes, exhausted,
                   untried>>

\* The with block is left: the prefetch call returns to
\* generate_pokemon_team (line 430 to 431, line 431 to 434).
PoolReturns ==
    /\ phase \in {"shutdown_pokemon", "shutdown_species"}
    /\ AllTasksDone(executor)
    /\ executor' = [executor EXCEPT !.returned = TRUE]
    /\ phase' = IF phase = "shutdown_pokemon" THEN "prefetch_species"
                ELSE "manual"
    /\ UNCHANGED <<pokemon_cache, species_cache, foreground>>
    /\ UNCHANGED restVars

\* Another thread (the control thread in update_ui, the sampler of a cycle
\* started before) calls get_pokemon_data or get_pokemon_species_data: it
\* misses (lines 167, 183) and issues its request (lines 172, 188).
ForegroundRequest ==
    /\ foreground = NoFetch
    /\ \E kind \in {"pokemon", "species"}, pokemon_id \in KnownIds :
         /\ IntKey(pokemon_id) \notin DOMAIN Memory(kind)
         /\ foreground' = [op |-> kind, id |-> pokemon_id]
    /\ UNCHANGED <<pokemon_cache, species_cache, executor, phase>>
    /\ UNCHANGED restVars

\* The request of the other thread returns and the record is stored (lines
\* 173-176, 189-192), or it raises (lines 177-179, 193-195).
ForegroundAnswer ==
    /\ foreground # NoFetch
    /\ \E ok \in BOOLEAN :
         IF ok
         THEN /\ WriteMemory(foreground.op, foreground.id,
                             Documents(foreground.op)[foreground.id])
              /\ UNCHANGED failures
         ELSE /\ failures < MaxFailures
              /\ failures' = failures + 1
              /\ UNCHANGED <<pokemon_cache, species_cache>>
    /\ foreground' = NoFetch
    /\ UNCHANGED <<executor, phase>>
    /\ UNCHANGED <<evolution_cache, widgetVars, diskVars, candidateVars,
                   resolverVars, slot, selected_pokemon, selected_types,
                   warnings, thread_started, remote_used, flushes, exhausted,
                   untried>>

-----------------------------------------------------------------------------
(* SpecPrefetch: the two prefetch calls of one cycle, task by task, for    *)
(* lists long enough to keep every worker busy.                            *)

NextPrefetch ==
    \/ SubmitTasks
    \/ StartTask
    \/ FinishTask
    \/ PoolReturns

SpecPrefetch == InitPrefetch /\ [][NextPrefetch]_vars

\* The prefetch call in progress has tasks that are queued or running.
TasksOutstanding == executor.kind # "none" /\ ~AllTasksDone(executor)

\* The sampler thread is inside a prefetch call, in the exit of its with
\* block.
InPrefetchCall == phase \in {"shutdown_pokemon", "shutdown_species"}

\* C11: whatever ids are in the list and whichever of their requests fail,
\* the prefetch call returns; the call can always go on until it does; after
\* it every id whose request did not fail is in the memory tier with the
\* record the remote serves, and an id whose request failed has left the
\* memory tier as it was: the failure of one task neither ends the others
\* nor drops the queued ones.
C11_PrefetchBestEffort ==
    /\ InPrefetchCall =>
          \/ executor.running # {}
          \/ executor.next <= Len(executor.ids) /\ WorkerFree(executor.running)
          \/ AllTasksDone(executor)
    /\ executor.returned =>
          /\ phase \in {"prefetch_species", "manual"}
          /\ \A t \in DOMAIN executor.ids :
                t \notin executor.raised =>
                    /\ IntKey(executor.ids[t]) \in DOMAIN Memory(executor.kind)
                    /\ Memory(executor.kind)[IntKey(executor.ids[t])] =
                          Documents(executor.kind)[executor.ids[t]]
          /\ \A t \in executor.raised :
                IntKey(executor.ids[t]) \notin DOMAIN Memory(executor.kind)

C11_Witness ==
    /\ executor.returned
    /\ executor.kind = "pokemon"
    /\ Len(executor.ids) = 11
    /\ \E t \in executor.raised : executor.ids[t] = 150
    /\ IntKey(152) \in DOMAIN pokemon_cache
    /\ Cardinality(executor.raised) = 10

\* C12: a prefetch call returns only when every task it scheduled has ended:
\* once it has returned no task of it is queued or running, the sampler is
\* past the call, and no step changes the dictionary the call filled.
C12_ReturnsAfterAllTasks ==
    /\ [](executor.returned =>
             /\ executor.next > Len(executor.ids)
             /\ executor.running = {})
    /\ [](phase \in {"prefetch_species", "manual"} => ~TasksOutstanding)
    /\ [][(executor.returned /\ executor'.returned /\ executor.kind = "pokemon")
             => pokemon_cache' = pokemon_cache]_vars
    /\ [][(executor.returned /\ executor'.returned /\ executor.kind = "species")
             => species_cache' = species_cache]_vars

C12_Witness ==
    /\ phase = "manual"
    /\ executor.returned
    /\ executor.kind = "species"
    /\ Len(executor.ids) = 11
    /\ IntKey(150) \in DOMAIN species_cache
    /\ IntKey(152) \in DOMAIN pokemon_cache

\* C17: the prefetcher is triggered fire-and-forget: the sampler thread is
\* not held back by tasks that are outstanding, it goes on to the manual
\* picks while they run.
C17_SamplerNotHeldByPrefetch ==
    TasksOutstanding => ~InPrefetchCall

\* C19: at most 10 tasks of a prefetch call are in flight at the same time,
\* however many ids the call was given.
C19_BoundedParallelism ==
    Cardinality(executor.running) <= 10

C19_Witness ==
    /\ Cardinality(executor.running) = 10
    /\ Len(executor.ids) = 11
    /\ executor.next = 11

-----------------------------------------------------------------------------
(* SpecWriters: the two prefetch calls on a short list while another       *)
(* thread fetches records of the same and of other ids.                    *)

\* The longest list of a prefetch call that runs beside another thread.
MaxRaced == 3

InitWriters ==
    /\ pokemon_ids \in {Range(153 - n, 153) : n \in 0..MaxRaced}
    /\ valid_ids = <<>>
    /\ phase = "prefetch_pokemon"
    /\ CachesCold /\ DiskAbsent /\ FiltersOff /\ TeamIdle /\ ExecutorIdle
    /\ ResolverIdle
    /\ selected_generations = <<>>

NextWriters ==
    \/ SubmitTasks
    \/ StartTask
    \/ FinishTask
    \/ PoolReturns
    \/ ForegroundRequest
    \/ ForegroundAnswer

SpecWriters == InitWriters /\ [][NextWriters]_vars

\* Every entry of a dictionary is keyed by the id as an integer and holds the
\* record the remote serves for that id.
EntriesAreRemoteRecords(kind) ==
    \A key \in DOMAIN Memory(kind) :
        /\ key.type = "int"
        /\ key.int \in DOMAIN Documents(kind)
        /\ Memory(kind)[key] = Documents(kind)[key.int]

\* C18: for every interleaving of the pool's workers and another thread
\* that fetch and store the same id and other ids at the same time, a
\* dictionary holds one entry per id, under the integer key, equal to the
\* remote record; no step loses or alters an entry that is there; and when
\* both prefetch calls have returned, the other thread is done and no
\* request for a record the remote serves has failed, every id of the list
\* that the remote serves is in both dictionaries.
C18_ConcurrentWritersSafe ==
    /\ [](EntriesAreRemoteRecords("pokemon") /\ EntriesAreRemoteRecords("species"))
    /\ [][\A key \in DOMAIN pokemon_cache :
              /\ key \in DOMAIN pokemon_cache'
              /\ pokemon_cache'[key] = pokemon_cache[key]]_vars
    /\ [][\A key \in DOMAIN species_cache :
              /\ key \in DOMAIN species_cache'
              /\ species_cache'[key] = species_cache[key]]_vars
    /\ []((phase = "manual" /\ foreground = NoFetch /\ failures = 0) =>
             \A i \in DOMAIN pokemon_ids :
                 pokemon_ids[i] \in KnownIds =>
                     /\ IntKey(pokemon_ids[i]) \in DOMAIN pokemon_cache
                     /\ IntKey(pokemon_ids[i]) \in DOMAIN species_cache)

\* The other thread missed id 152 and has its request in flight; meanwhile a
\* worker of the pool has stored 152, beside the entry of another id.
C18_Witness ==
    /\ foreground = [op |-> "pokemon", id |-> 152]
    /\ executor.kind = "pokemon"
    /\ \E t \in DOMAIN executor.ids :
          /\ executor.ids[t] = 152
          /\ t < executor.next
          /\ t \notin executor.running
          /\ t \notin executor.raised
    /\ IntKey(152) \in DOMAIN pokemon_cache
    /\ Cardinality(DOMAIN pokemon_cache) >= 2

-----------------------------------------------------------------------------
(* SpecFallback: up to MaxCalls calls of the fetch functions, the checks   *)
(* and the loop body of get_random_pokemon, one after another, with        *)
(* requests that raise; each call leaves what it was asked, which of its   *)
(* requests raised and what it returned.                                   *)

NoAnswer == [op |-> "none", id |-> 0, raised |-> {}, data |-> None,
             value |-> FALSE, chain |-> <<>>]

fallbackFrame == <<widgetVars, diskVars, candidateVars, poolVars,
                   evolution_data, slot, selected_pokemon, selected_types,
                   warnings, thread_started, remote_used, flushes, exhausted,
                   untried, phase>>

InitFallback ==
    /\ phase = "fallback"
    /\ evolution_filter_var \in BOOLEAN
    /\ legendary_filter_var \in BOOLEAN
    /\ type_filter_var = FALSE
    /\ pokemon_selectors = <<>>
    /\ CachesCold /\ DiskAbsent /\ TeamIdle /\ CandidatesIdle /\ ExecutorIdle
    /\ evolution_data = Node(0, <<>>)
    /\ calls = <<>>
    /\ last_call = NoAnswer
    /\ selected_generations = <<>>

\* The call returns to its caller: the requests that raised are counted and
\* the answer is kept.
Returns(op, pokemon_id, raising, failed, data, value, chain) ==
    /\ Cardinality(raising) = failed
    /\ failures' = failures + failed
    /\ last_call' = [op |-> op, id |-> pokemon_id, raised |-> raising,
                     data |-> data, value |-> value, chain |-> chain]
    /\ calls' = Append(calls, op)
    /\ UNCHANGED fallbackFrame

\* get_pokemon_data(pokemon_id)
AskPokemonData ==
    /\ phase = "fallback" /\ Len(calls) < MaxCalls
    /\ \E pokemon_id \in KnownIds, raising \in MayRaise({"pokemon"}, failures) :
         LET r == get_pokemon_data(CatalogueRemote, pokemon_cache, pokemon_id,
                                   "pokemon" \notin raising)
         IN  /\ Returns("get_pokemon_data", pokemon_id, raising, r.failed,
                        r.data, FALSE, <<>>)
             /\ pokemon_cache' = r.cache
             /\ UNCHANGED <<species_cache, evolution_cache>>

\* is_legendary(pokemon_id)
AskIsLegendary ==
    /\ phase = "fallback" /\ Len(calls) < MaxCalls
    /\ \E pokemon_id \in KnownIds, raising \in MayRaise({"species"}, failures) :
         LET r == is_legendary(CatalogueRemote, species_cache, pokemon_id,
                               "species" \notin raising)
         IN  /\ Returns("is_legendary", pokemon_id, raising, r.failed,
                        None, r.value, <<>>)
             /\ species_cache' = r.species_cache
             /\ UNCHANGED <<pokemon_cache, evolution_cache>>

\* get_evolution_chain(pokemon_id)
AskEvolutionChain ==
    /\ phase = "fallback" /\ Len(calls) < MaxCalls
    /\ \E pokemon_id \in KnownIds,
          raising \in MayRaise({"species", "chain"}, failures) :
         LET r == get_evolution_chain(CatalogueRemote, species_cache,
                      evolution_cache, pokemon_id,
                      "species" \notin raising, "chain" \notin raising)
         IN  /\ Returns("get_evolution_chain", pokemon_id, raising, r.failed,
                        None, FALSE, r.chain)
             /\ species_cache' = r.species_cache
             /\ evolution_cache' = r.evolution_cache
             /\ UNCHANGED pokemon_cache

\* is_fully_evolved(pokemon_id)
AskIsFullyEvolved ==
    /\ phase = "fallback" /\ Len(calls) < MaxCalls
    /\ \E pokemon_id \in KnownIds,
          raising \in MayRaise({"species", "chain"}, failures) :
         LET r == is_fully_evolved(CatalogueRemote, species_cache,
                      evolution_cache, pokemon_id,
                      "species" \notin raising, "chain" \notin raising)
         IN  /\ Returns("is_fully_evolved", pokemon_id, raising, r.failed,
                        None, r.value, r.chain)
             /\ species_cache' = r.species_cache
             /\ evolution_cache' = r.evolution_cache
             /\ UNCHANGED pokemon_cache

\* One pass of the for loop of get_random_pokemon (lines 284-303) called
\* without existing_types: value tells whether the record is returned.
DrawCandidate ==
    /\ phase = "fallback" /\ Len(calls) < MaxCalls
    /\ \E pokemon_id \in KnownIds,
          raising \in MayRaise({"pokemon", "species", "chain", "species2"}, failures) :
         LET v == TryCandidateBody(CatalogueRemote, pokemon_cache,
                      species_cache, evolution_cache, pokemon_id,
                      TypesArg(FALSE, {}),
                      evolution_filter_var, legendary_filter_var,
                      "pokemon" \notin raising, "species" \notin raising,
                      "chain" \notin raising, "species2" \notin raising)
         IN  /\ Returns("get_random_pokemon", pokemon_id, raising, v.failed,
                        v.data, v.accepted, <<>>)
             /\ pokemon_cache' = v.pokemon_cache
             /\ species_cache' = v.species_cache
             /\ evolution_cache' = v.evolution_cache

NextFallback ==
    \/ AskPokemonData
    \/ AskIsLegendary
    \/ AskEvolutionChain
    \/ AskIsFullyEvolved
    \/ DrawCandidate

SpecFallback == InitFallback /\ [][NextFallback]_vars

\* A call has just returned.
Returned == Len(calls') = Len(calls) + 1

\* C22: a remote request that raises never ends the caller and counts as
\* a record that is absent. get_pokemon_data gives None and the candidate is
\* passed over; is_legendary gives False; get_evolution_chain gives the empty
\* list, whether the species request or the chain request raised, and
\* is_fully_evolved then gives True; a draw whose only obstacle would have
\* been the check that lost its record returns the candidate. A function
\* whose request raised leaves the dictionary it would have written as it
\* was.
C22_FailuresArePermissive ==
    /\ [](phase = "fallback")
    /\ [][(Returned /\ last_call'.op = "get_pokemon_data"
                    /\ last_call'.raised # {}) =>
             /\ last_call'.data = None
             /\ pokemon_cache' = pokemon_cache]_vars
    /\ [][(Returned /\ last_call'.op = "is_legendary"
                    /\ last_call'.raised # {}) =>
             /\ last_call'.value = FALSE
             /\ species_cache' = species_cache]_vars
    /\ [][(Returned /\ last_call'.op \in {"get_evolution_chain", "is_fully_evolved"}
                    /\ last_call'.raised # {}) =>
             /\ last_call'.chain = <<>>
             /\ last_call'.op = "is_fully_evolved" => last_call'.value
             /\ evolution_cache' = evolution_cache
             /\ "species" \in last_call'.raised => species_cache' = species_cache]_vars
    /\ [][(Returned /\ last_call'.op = "get_random_pokemon"
                    /\ "pokemon" \in last_call'.raised) =>
             /\ ~last_call'.value
             /\ last_call'.data = None
             /\ pokemon_cache' = pokemon_cache
             /\ species_cache' = species_cache
             /\ evolution_cache' = evolution_cache]_vars
    /\ [][(Returned /\ last_call'.op = "get_random_pokemon"
                    /\ last_call'.raised \cap {"species", "chain"} # {}) =>
             /\ evolution_cache' = evolution_cache
             /\ ~(legendary_filter_var /\ Flagged(last_call'.id)) =>
                   /\ last_call'.value
                   /\ last_call'.data = CatalogueRemote.pokemon[last_call'.id]]_vars
    /\ [][(Returned /\ last_call'.op = "get_random_pokemon"
                    /\ "species2" \in last_call'.raised) =>
             /\ last_call'.value
             /\ species_cache' = species_cache]_vars

\* Chikorita, which is not the last of its chain, is drawn with the stage
\* filter on; the species request of the stage check raises and the record
\* is returned.
C22_Witness ==
    /\ last_call.op = "get_random_pokemon"
    /\ last_call.id = 152
    /\ evolution_filter_var
    /\ last_call.raised = {"species"}
    /\ last_call.value
    /\ IntKey(152) \notin DOMAIN evolution_cache

=============================================================================
